---- MODULE Spec2Model ----
(***************************************************************************)
(* A model of the battleship simulator: the board engine                   *)
(* (simulation/game_engine.py), the placement policy                       *)
(* (simulation/placement_strategy.py), the simulation driver               *)
(* (simulation/simulation_runner.py) and the targeting algorithms          *)
(* (algorithms/*.py).                                                      *)
(*                                                                         *)
(* Conventions.  A coordinate (r, c) is the tuple <<r, c>>.  Python's None *)
(* is the string "None".  A Python list the code only ever shuffles and    *)
(* then pops is kept as the set of its remaining elements, a pop being a   *)
(* choice of any remaining element (the same set of runs as shuffling      *)
(* first); a list made of two shuffled halves is kept as the pair of the   *)
(* two sets, front and back.  Grid objects live in `heap`, and a game      *)
(* holds a reference into it, so that two names of one Python list are two *)
(* references to one heap entry.                                           *)
(***************************************************************************)
EXTENDS Integers, Sequences, FiniteSets, TLC

\* ------------------------------------------------------------------ bounds
BoardSize == 3

NumSimulations == 2

\* ------------------------------------------------------- program constants
max_placement_attempts == 1000

\* ------------------------------------------------------------------- state
VARIABLES
    algorithm,                \* params['algorithm']
    ship_placement_strategy,  \* params['ship_placement_strategy']
    ship_config,              \* params['ship_configuration']
    heap,                     \* grid objects: 0 the game's own, 1.. the caller's
    solution_grid,            \* game.solution_grid: a reference into heap
    total_ship_segments,      \* game.total_ship_segments
    hits_made,                \* game.hits_made
    pc,                       \* position of the driver / of placement
    error,                    \* the exception that ended the run, or "None"
    games_played,             \* iterations of run()'s for loop completed
    shots_fired_coords,       \* _play_single_game: cell -> times appended
    hit_history,              \* _play_single_game: hit_history
    player_view,              \* _play_single_game: player_view
    turns,                    \* next_shot calls that returned in this game
    last_shot,                \* the coordinate last passed to take_shot
    result,                   \* what take_shot last returned
    alg,                      \* the algorithm instance's fields
    place,                    \* _place_ships: ship index and attempts so far
    shots_per_game,           \* run(): shots_per_game
    heat_map_grid,            \* run(): heat_map_grid
    algorithms,               \* run_comparison(): algorithms, in dict order
    game_template,            \* run_comparison(): game_template
    random_state              \* the generator of module random: "None" when
                              \* seeded by the system, else seed and draws made

paramVars == <<algorithm, ship_placement_strategy, ship_config>>
gameVars == <<heap, solution_grid, total_ship_segments, hits_made>>
playVars == <<shots_fired_coords, hit_history, player_view, turns, last_shot, result>>
statVars == <<shots_per_game, heat_map_grid>>
compVars == <<algorithms, game_template>>
vars == <<algorithm, ship_placement_strategy, ship_config, heap, solution_grid,
          total_ship_segments, hits_made, pc, error, games_played,
          shots_fired_coords, hit_history, player_view, turns, last_shot,
          result, alg, place, shots_per_game, heat_map_grid, algorithms,
          game_template, random_state>>

\* ------------------------------------------------------------- coordinates
Rows == 0 .. (BoardSize - 1)

Cells == Rows \X Rows

OnBoard(r, c) == r \in Rows /\ c \in Rows

Parity(cell) == (cell[1] + cell[2]) % 2

ParityCells(p) == {cell \in Cells : Parity(cell) = p}

NoCell == <<-1, -1>>

RECURSIVE SumOver(_, _)
SumOver(f, S) ==
    IF S = {} THEN 0
    ELSE LET x == CHOOSE y \in S : TRUE IN f[x] + SumOver(f, S \ {x})

SeqToSet(s) == {s[i] : i \in DOMAIN s}

MinOf(S) == CHOOSE x \in S : \A y \in S : x <= y

MaxOf(S) == CHOOSE x \in S : \A y \in S : x >= y

\* ------------------------------------------------------ ship configurations
Destroyer == [name |-> "Destroyer", shape |-> << <<0, 0>>, <<0, 1>> >>]

Cruiser == [name |-> "Cruiser", shape |-> << <<0, 0>>, <<0, 1>>, <<0, 2>> >>]

Carrier ==
    [name |-> "Carrier",
     shape |-> << <<0, 0>>, <<0, 1>>, <<0, 2>>, <<0, 3>>, <<0, 4>> >>]

Buoy == [name |-> "Single-Cell Buoy", shape |-> << <<0, 0>> >>]

\* sum(len(ship['shape']) for ship in ship_config)
RECURSIVE ShapeSizeSum(_)
ShapeSizeSum(config) ==
    IF config = <<>> THEN 0
    ELSE Len(Head(config).shape) + ShapeSizeSum(Tail(config))

\* ---------------------------------------------------------------- the board
EmptyGrid == [cell \in Cells |-> "None"]

\* The grid whose ship cells are given by a function cell -> ship name.
GridOf(ships) ==
    [cell \in Cells |-> IF cell \in DOMAIN ships THEN ships[cell] ELSE "None"]

ShipCells(grid) == {cell \in Cells : grid[cell] # "None"}

\* BattleshipGame.is_game_over
is_game_over == hits_made >= total_ship_segments

\* BattleshipGame.take_shot on the grid object h[ref]
take_shot_missing_guard(h, ref, hits, cell) ==
    IF h[ref][cell] # "None"
    THEN [result |-> "HIT",
          heap |-> [h EXCEPT ![ref][cell] = "HIT"],
          hits_made |-> hits + 1]
    ELSE [result |-> "MISS", heap |-> h, hits_made |-> hits]

\* Variant that answers MISS for a ship cell already marked.
take_shot_marked_is_miss(h, ref, hits, cell) ==
    IF h[ref][cell] # "None"
    THEN IF h[ref][cell] # "HIT"
         THEN [result |-> "HIT",
               heap |-> [h EXCEPT ![ref][cell] = "HIT"],
               hits_made |-> hits + 1]
         ELSE [result |-> "MISS", heap |-> h, hits_made |-> hits]
    ELSE [result |-> "MISS", heap |-> h, hits_made |-> hits]

take_shot(h, ref, hits, cell) ==
    IF h[ref][cell] # "None"
    THEN IF h[ref][cell] # "HIT"
         THEN [result |-> "HIT",
               heap |-> [h EXCEPT ![ref][cell] = "HIT"],
               hits_made |-> hits + 1]
         ELSE [result |-> "HIT", heap |-> h, hits_made |-> hits]
    ELSE [result |-> "MISS", heap |-> h, hits_made |-> hits]

\* ---------------------------------------------------------------- placement
\* BattleshipGame._get_random_orientation for one draw of the three choices
FlipV(shape, yes) ==
    IF yes THEN [i \in DOMAIN shape |-> <<-shape[i][1], shape[i][2]>>] ELSE shape

FlipH(shape, yes) ==
    IF yes THEN [i \in DOMAIN shape |-> <<shape[i][1], -shape[i][2]>>] ELSE shape

RECURSIVE Rotate(_, _)
Rotate(shape, n) ==
    IF n = 0 THEN shape
    ELSE Rotate([i \in DOMAIN shape |-> <<-shape[i][2], shape[i][1]>>], n - 1)

Orientations(shape) ==
    {Rotate(FlipH(FlipV(shape, fv), fh), n) :
        fv \in BOOLEAN, fh \in BOOLEAN, n \in 0 .. 3}

\* One iteration of _place_ships' attempt loop for `ship` on `grid`: every
\* result the random draws allow.  random.randint(a, b) raises ValueError
\* when a > b.
AttemptOutcomes(grid, ship) ==
    UNION {
        LET min_r == MinOf({oriented[i][1] : i \in DOMAIN oriented})
            max_r == MaxOf({oriented[i][1] : i \in DOMAIN oriented})
            min_c == MinOf({oriented[i][2] : i \in DOMAIN oriented})
            max_c == MaxOf({oriented[i][2] : i \in DOMAIN oriented})
        IN IF -min_r > BoardSize - 1 - max_r \/ -min_c > BoardSize - 1 - max_c
           THEN {[kind |-> "raise", error |-> "ValueError", grid |-> grid]}
           ELSE {LET absolute_coords ==
                         {<<anchor_r + oriented[i][1], anchor_c + oriented[i][2]>> :
                              i \in DOMAIN oriented}
                 IN IF \A cell \in absolute_coords : grid[cell] = "None"
                    THEN [kind |-> "placed", error |-> "None",
                          grid |-> [cell \in Cells |->
                                      IF cell \in absolute_coords
                                      THEN ship.name ELSE grid[cell]]]
                    ELSE [kind |-> "retry", error |-> "None", grid |-> grid] :
                 anchor_r \in (-min_r) .. (BoardSize - 1 - max_r),
                 anchor_c \in (-min_c) .. (BoardSize - 1 - max_c)}
        : oriented \in Orientations(ship.shape)}

\* _place_ships run to its end from `grid` for the ships config[i..]: the
\* grids it can return and the exceptions it can raise.  A ship's loop ends
\* in RuntimeError when every one of its attempts finds an occupied cell.
RECURSIVE PlaceShips(_, _, _)
PlaceShips(grid, config, i) ==
    IF i > Len(config) THEN {[error |-> "None", grid |-> grid]}
    ELSE LET outs == AttemptOutcomes(grid, config[i])
         IN UNION {PlaceShips(o.grid, config, i + 1) :
                       o \in {x \in outs : x.kind = "placed"}}
            \cup {[error |-> o.error, grid |-> EmptyGrid] :
                       o \in {x \in outs : x.kind = "raise"}}
            \cup {[error |-> "RuntimeError", grid |-> EmptyGrid] :
                       o \in {x \in outs : x.kind = "retry"
                                            /\ max_placement_attempts > 0}}

\* PlacementStrategy.get_game_instance: every game it can return, and every
\* exception it can raise, with the caller's grids in h[1..].  The fixed and
\* the set policies build a random game first and then point its
\* solution_grid at the caller's grid object.
create_from_random(h, config) ==
    {IF o.error # "None"
     THEN [error |-> o.error, heap |-> h, solution_grid |-> 0,
           total_ship_segments |-> 0, hits_made |-> 0]
     ELSE [error |-> "None", heap |-> [h EXCEPT ![0] = o.grid],
           solution_grid |-> 0,
           total_ship_segments |-> ShapeSizeSum(config), hits_made |-> 0] :
     o \in PlaceShips(EmptyGrid, config, 1)}

create_from_fixed_grid(h, config, ref) ==
    {IF o.error # "None"
     THEN [error |-> o.error, heap |-> h, solution_grid |-> 0,
           total_ship_segments |-> 0, hits_made |-> 0]
     ELSE [error |-> "None", heap |-> h, solution_grid |-> ref,
           total_ship_segments |-> Cardinality(ShipCells(h[ref])),
           hits_made |-> 0] :
     o \in create_from_random(h, config)}

create_from_random_set(h, config) ==
    UNION {create_from_fixed_grid(h, config, ref) : ref \in {x \in DOMAIN h : x > 0}}

get_game_instance(strategy_id, h, config) ==
    CASE strategy_id = "random_each_round" -> create_from_random(h, config)
      [] strategy_id = "fixed_for_all_rounds" -> create_from_fixed_grid(h, config, 1)
      [] strategy_id = "random_from_set" -> create_from_random_set(h, config)
      [] OTHER -> {[error |-> "ValueError", heap |-> h, solution_grid |-> 0,
                    total_ship_segments |-> 0, hits_made |-> 0]}

\* ------------------------------------------------------------ the algorithms
\* An algorithm instance is the record of its fields.  X_init is the state
\* __init__ leaves before it calls reset(); X_reset(st) is every state
\* reset() can leave; X_next_shot(st, view, hits) is every outcome of one
\* call: the coordinate returned (or the exception raised, or "hang" for a
\* loop that never ends) and the instance's state after it.
Returned(cell, st) == [shot |-> cell, raised |-> "None", st |-> st]

Raised(exc, st) == [shot |-> NoCell, raised |-> exc, st |-> st]

\* --- algorithms/random_search.py
RandomSearch_init == [unfired_shots |-> {}]

RandomSearch_reset(st) == {[st EXCEPT !.unfired_shots = Cells]}

RandomSearch_next_shot_no_pop(st, view, hits) ==
    IF st.unfired_shots = {} THEN {Raised("ValueError", st)}
    ELSE {Returned(cell, st) : cell \in st.unfired_shots}

RandomSearch_next_shot(st, view, hits) ==
    IF st.unfired_shots = {} THEN {Raised("ValueError", st)}
    ELSE {Returned(cell, [st EXCEPT !.unfired_shots = @ \ {cell}]) :
              cell \in st.unfired_shots}

\* --- helpers shared by the heuristics
\* Every order in which Python may iterate over a set.
RECURSIVE Perms(_)
Perms(S) ==
    IF S = {} THEN {<<>>}
    ELSE UNION {{<<x>> \o p : p \in Perms(S \ {x})} : x \in S}

\* _is_valid_and_unfired
is_valid_and_unfired(cell, fired) == OnBoard(cell[1], cell[2]) /\ cell \notin fired

\* _get_p2m2_pattern
get_p2m2_pattern(origin) ==
    << <<origin[1] + 2, origin[2]>>, <<origin[1] - 2, origin[2]>>,
       <<origin[1], origin[2] + 2>>, <<origin[1], origin[2] - 2>> >>

\* _get_adjacent_pattern
get_adjacent_pattern(origin) ==
    << <<origin[1] + 1, origin[2]>>, <<origin[1] - 1, origin[2]>>,
       <<origin[1], origin[2] + 1>>, <<origin[1], origin[2] - 1>> >>

\* The first entry of a candidate list that is on the board and unfired
HasValid(candidates, fired) ==
    \E i \in DOMAIN candidates : is_valid_and_unfired(candidates[i], fired)

FirstValid(candidates, fired) ==
    candidates[MinOf({i \in DOMAIN candidates :
                          is_valid_and_unfired(candidates[i], fired)})]

\* A hunt list of two shuffled halves, `front` first.  list.pop() takes the
\* last entry, deque.popleft() the first.  The loops around them drop the
\* entries that fail `keep`; the result is every (entry returned, list
\* left), with item = NoCell when the list ran empty.
EmptyHunt == [front |-> {}, back |-> {}]

\* One shuffled half under such a loop: an entry that passes is reached
\* after any of the failing entries were popped and dropped before it.
PopShuffled(half, keep) ==
    {[item |-> cell, left |-> half \ (dropped \cup {cell})] :
         cell \in half \cap keep, dropped \in SUBSET (half \ keep)}

PopEndLoop(hunt, keep) ==
    IF hunt.back \cap keep # {}
    THEN {[item |-> p.item, rest |-> [hunt EXCEPT !.back = p.left]] :
              p \in PopShuffled(hunt.back, keep)}
    ELSE IF hunt.front \cap keep # {}
    THEN {[item |-> p.item, rest |-> [front |-> p.left, back |-> {}]] :
              p \in PopShuffled(hunt.front, keep)}
    ELSE {[item |-> NoCell, rest |-> EmptyHunt]}

PopLeftLoop(hunt, keep) ==
    IF hunt.front \cap keep # {}
    THEN {[item |-> p.item, rest |-> [hunt EXCEPT !.front = p.left]] :
              p \in PopShuffled(hunt.front, keep)}
    ELSE IF hunt.back \cap keep # {}
    THEN {[item |-> p.item, rest |-> [front |-> {}, back |-> p.left]] :
              p \in PopShuffled(hunt.back, keep)}
    ELSE {[item |-> NoCell, rest |-> EmptyHunt]}

UnknownCells(view) == {cell \in Cells : view[cell] = "UNKNOWN"}

\* Variant that returns the drawn cell without looking it up in the fired set.
RandomUnfired_without_check(fired) == Cells

\* `while True: r, c = randint, randint; if (r, c) not in fired: ...`: any
\* unfired cell, and no return at all when every cell is fired.
RandomUnfired(fired) == Cells \ fired

\* --- algorithms/hunt_target.py
HuntAndTarget_init ==
    [mode |-> "HUNT", hunt_targets |-> EmptyHunt, priority_targets |-> <<>>,
     active_hits |-> {}]

HuntAndTarget_reset(st) ==
    {[st EXCEPT !.mode = "HUNT", !.priority_targets = <<>>, !.active_hits = {},
                !.hunt_targets = [front |-> ParityCells(0),
                                  back |-> ParityCells(1)]]}

\* _update_state.  The loop over potential_tickets names a variable that
\* does not exist: the first new hit raises NameError, after the mode and
\* active_hits were written.
HuntAndTarget_update_state(st, hits, view) ==
    LET newly_found_hits == SeqToSet(hits) \ st.active_hits
    IN IF newly_found_hits # {}
       THEN {Raised("NameError",
                    [st EXCEPT !.mode = "TARGET", !.active_hits = @ \cup {hit}]) :
                 hit \in newly_found_hits}
       ELSE IF st.mode = "TARGET" /\ st.priority_targets = <<>>
       THEN {Returned(NoCell, [st EXCEPT !.mode = "HUNT", !.active_hits = {}])}
       ELSE {Returned(NoCell, st)}

HuntAndTarget_next_shot(st0, view, hits) ==
    UNION {
        IF u.raised # "None" THEN {u}
        ELSE LET st == u.st
             IN IF st.mode = "TARGET"
                THEN IF st.priority_targets = <<>>
                     THEN {Raised("IndexError", st)}
                     ELSE {Returned(st.priority_targets[Len(st.priority_targets)],
                                    [st EXCEPT !.priority_targets =
                                         SubSeq(@, 1, Len(@) - 1)])}
                ELSE {IF p.item = NoCell
                      THEN Raised("ValueError", [st EXCEPT !.hunt_targets = p.rest])
                      ELSE Returned(p.item, [st EXCEPT !.hunt_targets = p.rest]) :
                      p \in PopEndLoop(st.hunt_targets, UnknownCells(view))}
        : u \in HuntAndTarget_update_state(st0, hits, view)}

\* --- algorithms/p2m2.py
P2M2Enhanced_init ==
    [mode |-> "HUNT", fired_shots |-> {}, hunt_targets |-> EmptyHunt,
     chosen_parity |-> 0, priority_hits |-> <<>>, all_hits |-> {},
     last_hit_for_midpoint |-> NoCell, last_shot_was_p2m2_hit |-> FALSE]

P2M2Enhanced_reset_keeps_fired(st) ==
    {[st EXCEPT !.mode = "HUNT", !.priority_hits = <<>>,
                !.all_hits = {}, !.last_hit_for_midpoint = NoCell,
                !.last_shot_was_p2m2_hit = FALSE, !.chosen_parity = parity,
                !.hunt_targets = [front |-> ParityCells(parity),
                                  back |-> ParityCells(1 - parity)]] :
     parity \in {0, 1}}

P2M2Enhanced_reset(st) ==
    {[st EXCEPT !.mode = "HUNT", !.fired_shots = {}, !.priority_hits = <<>>,
                !.all_hits = {}, !.last_hit_for_midpoint = NoCell,
                !.last_shot_was_p2m2_hit = FALSE, !.chosen_parity = parity,
                !.hunt_targets = [front |-> ParityCells(parity),
                                  back |-> ParityCells(1 - parity)]] :
     parity \in {0, 1}}

\* Variant that does not note that a new hit came from a pattern probe.
RECURSIVE P2M2Enhanced_add_hits_unnoted(_, _)
P2M2Enhanced_add_hits_unnoted(st, order) ==
    IF order = <<>> THEN st
    ELSE P2M2Enhanced_add_hits_unnoted(
             [st EXCEPT !.all_hits = @ \cup {Head(order)},
                        !.priority_hits = <<Head(order)>> \o @],
             Tail(order))

\* _update_state: the loop over the new hits, in the order `order`
RECURSIVE P2M2Enhanced_add_hits(_, _)
P2M2Enhanced_add_hits(st, order) ==
    IF order = <<>> THEN st
    ELSE LET hit == Head(order)
             st1 == IF st.last_hit_for_midpoint # NoCell
                       /\ hit \in SeqToSet(get_p2m2_pattern(st.last_hit_for_midpoint))
                    THEN [st EXCEPT !.last_shot_was_p2m2_hit = TRUE]
                    ELSE st
         IN P2M2Enhanced_add_hits(
                [st1 EXCEPT !.all_hits = @ \cup {hit},
                            !.priority_hits = <<hit>> \o @],
                Tail(order))

\* Variant that leaves the mode as it is when new hits are found.
P2M2Enhanced_update_state_keeps_mode(st, hits) ==
    LET newly_found_hits == SeqToSet(hits) \ st.all_hits
    IN IF newly_found_hits = {} THEN {st}
       ELSE {P2M2Enhanced_add_hits(st, order) :
                 order \in Perms(newly_found_hits)}

P2M2Enhanced_update_state(st, hits) ==
    LET newly_found_hits == SeqToSet(hits) \ st.all_hits
    IN IF newly_found_hits = {} THEN {st}
       ELSE {P2M2Enhanced_add_hits([st EXCEPT !.mode = "TARGET"], order) :
                 order \in Perms(newly_found_hits)}

\* The final fallback
P2M2Enhanced_fallback(st) ==
    IF RandomUnfired(st.fired_shots) = {} THEN {Raised("hang", st)}
    ELSE {Returned(cell, [st EXCEPT !.fired_shots = @ \cup {cell}]) :
              cell \in RandomUnfired(st.fired_shots)}

\* The TARGET branch: the while loop over priority_hits
RECURSIVE P2M2Enhanced_target(_)
P2M2Enhanced_target(st) ==
    IF st.priority_hits = <<>> THEN P2M2Enhanced_fallback(st)
    ELSE LET origin == Head(st.priority_hits)
             prev_hit == st.last_hit_for_midpoint
             mid == <<(origin[1] + prev_hit[1]) \div 2,
                      (origin[2] + prev_hit[2]) \div 2>>
             st1 == [st EXCEPT !.last_shot_was_p2m2_hit = FALSE]
             st2 == [st1 EXCEPT !.last_hit_for_midpoint = origin]
         IN IF st.last_shot_was_p2m2_hit /\ prev_hit = NoCell
            THEN {Raised("TypeError", st1)}
            ELSE IF st.last_shot_was_p2m2_hit
                    /\ is_valid_and_unfired(mid, st.fired_shots)
            THEN {Returned(mid, [st1 EXCEPT !.fired_shots = @ \cup {mid}])}
            ELSE IF HasValid(get_p2m2_pattern(origin), st.fired_shots)
            THEN LET shot == FirstValid(get_p2m2_pattern(origin), st.fired_shots)
                 IN {Returned(shot, [st2 EXCEPT !.fired_shots = @ \cup {shot}])}
            ELSE IF HasValid(get_adjacent_pattern(origin), st.fired_shots)
            THEN LET shot == FirstValid(get_adjacent_pattern(origin), st.fired_shots)
                 IN {Returned(shot, [st2 EXCEPT !.fired_shots = @ \cup {shot}])}
            ELSE P2M2Enhanced_target([st2 EXCEPT !.priority_hits = Tail(@)])

\* The HUNT branch.  hunt_targets is primary + secondary and pop() takes
\* its last entry.
P2M2Enhanced_hunt(st) ==
    UNION {IF p.item = NoCell
           THEN P2M2Enhanced_fallback([st EXCEPT !.hunt_targets = p.rest])
           ELSE {Returned(p.item,
                          [st EXCEPT !.hunt_targets = p.rest,
                                     !.fired_shots = @ \cup {p.item},
                                     !.last_hit_for_midpoint = NoCell,
                                     !.last_shot_was_p2m2_hit = FALSE])} :
           p \in PopEndLoop(st.hunt_targets, Cells \ st.fired_shots)}

P2M2Enhanced_next_shot(st0, view, hits) ==
    UNION {
        LET st == IF u.mode = "TARGET" /\ u.priority_hits = <<>>
                  THEN [u EXCEPT !.mode = "HUNT"] ELSE u
        IN IF st.mode = "HUNT" THEN P2M2Enhanced_hunt(st)
           ELSE P2M2Enhanced_target(st)
        : u \in P2M2Enhanced_update_state(st0, hits)}

\* --- hit clusters (smart_target.py, p2m2st.py, p2m2_optimized.py)
Manhattan(a, b) ==
    (IF a[1] >= b[1] THEN a[1] - b[1] ELSE b[1] - a[1])
    + (IF a[2] >= b[2] THEN a[2] - b[2] ELSE b[2] - a[2])

\* seq without its entries at the indices in idxs
RemoveIndices(seq, idxs) ==
    LET kept == {i \in DOMAIN seq : i \notin idxs}
        Nth(n) == CHOOSE i \in kept : Cardinality({j \in kept : j < i}) = n - 1
    IN [n \in 1 .. Cardinality(kept) |-> seq[Nth(n)]]

\* The body of the loop with a test of distance at most 2 for adjacency
AddHitToGroups_joins_within_two(groups, hit) ==
    LET adjacent_groups_indices ==
            {i \in DOMAIN groups : \E g \in groups[i] : Manhattan(hit, g) <= 2}
    IN IF adjacent_groups_indices = {} THEN Append(groups, {hit})
       ELSE Append(RemoveIndices(groups, adjacent_groups_indices),
                   {hit} \cup UNION {groups[i] : i \in adjacent_groups_indices})

\* The body of the loop with the joined groups left in the list
AddHitToGroups_keeps_joined(groups, hit) ==
    LET adjacent_groups_indices ==
            {i \in DOMAIN groups : \E g \in groups[i] : Manhattan(hit, g) = 1}
    IN IF adjacent_groups_indices = {} THEN Append(groups, {hit})
       ELSE Append(groups,
                   {hit} \cup UNION {groups[i] : i \in adjacent_groups_indices})

\* The body of the loop over new_hits, for one hit
AddHitToGroups(groups, hit) ==
    LET adjacent_groups_indices ==
            {i \in DOMAIN groups : \E g \in groups[i] : Manhattan(hit, g) = 1}
    IN IF adjacent_groups_indices = {} THEN Append(groups, {hit})
       ELSE Append(RemoveIndices(groups, adjacent_groups_indices),
                   {hit} \cup UNION {groups[i] : i \in adjacent_groups_indices})

RECURSIVE AddHitsToGroups(_, _)
AddHitsToGroups(groups, order) ==
    IF order = <<>> THEN groups
    ELSE AddHitsToGroups(AddHitToGroups(groups, Head(order)), Tail(order))

GroupedHits(groups) == UNION {groups[i] : i \in DOMAIN groups}

\* Counter(len(ship['shape']) for ship in ship_config)
CounterOf(config) ==
    [size \in {Len(config[i].shape) : i \in DOMAIN config} |->
        Cardinality({i \in DOMAIN config : Len(config[i].shape) = size})]

CounterSum(counter) == SumOver(counter, DOMAIN counter)

\* A candidate list is a sequence of blocks: the cells of one block come in
\* an order Python does not fix (the iteration of a set), the blocks in the
\* order written.
Ordered(list) == [i \in DOMAIN list |-> {list[i]}]

BlocksHaveValid(blocks, fired) ==
    \E i \in DOMAIN blocks : \E cell \in blocks[i] : is_valid_and_unfired(cell, fired)

\* The cells that can be the first valid entry of the list
FirstValidOfBlocks(blocks, fired) ==
    LET i == MinOf({j \in DOMAIN blocks :
                        \E cell \in blocks[j] : is_valid_and_unfired(cell, fired)})
    IN {cell \in blocks[i] : is_valid_and_unfired(cell, fired)}

\* The sunk check's loop over the groups: boxed[i] says group i has no valid
\* candidate.  Returns the counter left and the indices found sunk.
RECURSIVE SunkScan(_, _, _, _, _)
SunkScan(groups, boxed, i, remaining, sunk) ==
    IF i > Len(groups) THEN [remaining_ships |-> remaining, sunk |-> sunk]
    ELSE LET group_size == Cardinality(groups[i])
         IN IF boxed[i] /\ group_size \in DOMAIN remaining
               /\ remaining[group_size] > 0
            THEN SunkScan(groups, boxed, i + 1,
                          [remaining EXCEPT ![group_size] = @ - 1],
                          sunk \cup {i})
            ELSE SunkScan(groups, boxed, i + 1, remaining, sunk)

\* sorted(target_groups, key=len): a stable sort by size
SortedByLen(groups) ==
    LET Before(i, j) ==
            \/ Cardinality(groups[i]) < Cardinality(groups[j])
            \/ Cardinality(groups[i]) = Cardinality(groups[j]) /\ i < j
        Rank(i) == Cardinality({j \in DOMAIN groups : Before(j, i)}) + 1
    IN [n \in DOMAIN groups |-> groups[CHOOSE i \in DOMAIN groups : Rank(i) = n]]

\* --- algorithms/smart_target.py
SmartTarget_init ==
    [fired_shots |-> {}, hunt_targets |-> EmptyHunt, remaining_ships |-> <<>>,
     target_groups |-> <<>>, last_shot_coord |-> NoCell, ship_config |-> <<>>]

SmartTarget_new(config) == [SmartTarget_init EXCEPT !.ship_config = config]

SmartTarget_reset(st) ==
    {[st EXCEPT !.fired_shots = {}, !.target_groups = <<>>,
                !.last_shot_coord = NoCell,
                !.remaining_ships = CounterOf(st.ship_config),
                !.hunt_targets = [front |-> ParityCells(parity),
                                  back |-> ParityCells(1 - parity)]] :
     parity \in {0, 1}}

SmartTarget_get_target_candidates_for_group(group) ==
    IF Cardinality(group) = 1
    THEN Ordered(get_adjacent_pattern(CHOOSE hit \in group : TRUE))
    ELSE LET rows == {hit[1] : hit \in group}
             cols == {hit[2] : hit \in group}
             min_r == MinOf(rows)
             max_r == MaxOf(rows)
             min_c == MinOf(cols)
             max_c == MaxOf(cols)
         IN IF Cardinality(rows) = 1
            THEN Ordered(<< <<min_r, min_c - 1>>, <<min_r, max_c + 1>> >>)
            ELSE IF Cardinality(cols) = 1
            THEN Ordered(<< <<min_r - 1, min_c>>, <<max_r + 1, min_c>> >>)
            ELSE << UNION {SeqToSet(get_adjacent_pattern(hit)) : hit \in group}
                    \ group >>

SmartTarget_update_target_groups(st, hits) ==
    LET new_hits == SeqToSet(hits) \ GroupedHits(st.target_groups)
    IN {[st EXCEPT !.target_groups = AddHitsToGroups(@, order)] :
            order \in Perms(new_hits)}

\* _check_for_sunk_ships without the test of is_boxed_in
SmartTarget_check_for_sunk_ships_not_boxed(st) ==
    LET boxed == [i \in DOMAIN st.target_groups |-> TRUE]
        scan == SunkScan(st.target_groups, boxed, 1, st.remaining_ships, {})
    IN [st EXCEPT !.remaining_ships = scan.remaining_ships,
                  !.target_groups = RemoveIndices(@, scan.sunk)]

SmartTarget_check_for_sunk_ships(st) ==
    LET boxed == [i \in DOMAIN st.target_groups |->
                     ~BlocksHaveValid(
                          SmartTarget_get_target_candidates_for_group(
                              st.target_groups[i]),
                          st.fired_shots)]
        scan == SunkScan(st.target_groups, boxed, 1, st.remaining_ships, {})
    IN [st EXCEPT !.remaining_ships = scan.remaining_ships,
                  !.target_groups = RemoveIndices(@, scan.sunk)]

\* _get_shot
SmartTarget_get_shot(st, cell) ==
    Returned(cell, [st EXCEPT !.fired_shots = @ \cup {cell},
                              !.last_shot_coord = cell])

\* next_shot after the groups are up to date: target, then hunt, then the
\* random fallback
SmartTarget_choose(st) ==
    LET sorted == SortedByLen(st.target_groups)
        live == {i \in DOMAIN sorted :
                     BlocksHaveValid(
                         SmartTarget_get_target_candidates_for_group(sorted[i]),
                         st.fired_shots)}
    IN IF live # {}
       THEN {SmartTarget_get_shot(st, cell) :
                 cell \in FirstValidOfBlocks(
                              SmartTarget_get_target_candidates_for_group(
                                  sorted[MinOf(live)]),
                              st.fired_shots)}
       ELSE UNION {IF p.item # NoCell
                   THEN {SmartTarget_get_shot([st EXCEPT !.hunt_targets = p.rest],
                                              p.item)}
                   ELSE IF RandomUnfired(st.fired_shots) = {}
                   THEN {Raised("hang", [st EXCEPT !.hunt_targets = p.rest])}
                   ELSE {SmartTarget_get_shot([st EXCEPT !.hunt_targets = p.rest],
                                              cell) :
                             cell \in RandomUnfired(st.fired_shots)} :
                   p \in PopLeftLoop(st.hunt_targets, Cells \ st.fired_shots)}

SmartTarget_next_shot(st0, view, hits) ==
    LET st1 == IF st0.last_shot_coord # NoCell
                  /\ view[st0.last_shot_coord] = "MISS"
               THEN SmartTarget_check_for_sunk_ships(st0) ELSE st0
    IN UNION {SmartTarget_choose(st) :
                  st \in SmartTarget_update_target_groups(st1, hits)}

\* --- algorithms/p2m2st.py
\* _generate_diagonal_hunt_paths: the anti-diagonals r + c = k in turn, each
\* by rising r, every odd one reversed
DiagonalLine(k) ==
    LET rs == {r \in Rows : (k - r) \in Rows}
        n == Cardinality(rs)
        up == [i \in 1 .. n |-> <<MinOf(rs) + i - 1, k - (MinOf(rs) + i - 1)>>]
    IN IF k % 2 = 1 THEN [i \in 1 .. n |-> up[n + 1 - i]] ELSE up

RECURSIVE DiagonalPathsFrom(_)
DiagonalPathsFrom(k) ==
    IF k > BoardSize * 2 - 2 THEN <<>>
    ELSE DiagonalLine(k) \o DiagonalPathsFrom(k + 1)

generate_diagonal_hunt_paths == DiagonalPathsFrom(0)

IndexOf(seq, x) == MinOf({i \in DOMAIN seq : seq[i] = x})

SelectCells(seq, S) == SelectSeq(seq, LAMBDA cell : cell \in S)

P2M2STDirectional_init ==
    [fired_shots |-> {}, hunt_targets |-> <<>>, remaining_ships |-> <<>>,
     target_groups |-> <<>>, last_shot_coord |-> NoCell,
     ships_found_count |-> 0, ship_config |-> <<>>]

P2M2STDirectional_new(config) ==
    [P2M2STDirectional_init EXCEPT !.ship_config = config]

P2M2STDirectional_reset(st) ==
    {LET diagonal_path == generate_diagonal_hunt_paths
         start_index == IndexOf(diagonal_path, start_pos)
         ordered_path == SubSeq(diagonal_path, start_index, Len(diagonal_path))
                         \o SubSeq(diagonal_path, 1, start_index - 1)
     IN [st EXCEPT !.fired_shots = {}, !.target_groups = <<>>,
                   !.last_shot_coord = NoCell, !.ships_found_count = 0,
                   !.remaining_ships = CounterOf(st.ship_config),
                   !.hunt_targets =
                       SelectCells(ordered_path, ParityCells(Parity(start_pos)))] :
     start_pos \in {cell \in Cells : \/ cell[1] = 0 \/ cell[1] = BoardSize - 1
                                     \/ cell[2] = 0 \/ cell[2] = BoardSize - 1}}

RECURSIVE FlattenPatterns(_, _, _)
FlattenPatterns(order, p2m2, i) ==
    IF i > Len(order) THEN <<>>
    ELSE (IF p2m2 THEN get_p2m2_pattern(order[i])
          ELSE get_adjacent_pattern(order[i]))
         \o FlattenPatterns(order, p2m2, i + 1)

\* The cells strictly between lo and hi on row/column `fixed` that are not
\* in the group, in rising order, then the two ends
LineCandidates(group, horizontal, fixed, lo, hi) ==
    LET At(x) == IF horizontal THEN <<fixed, x>> ELSE <<x, fixed>>
        inner == [i \in 1 .. (IF hi - lo - 1 > 0 THEN hi - lo - 1 ELSE 0) |->
                     At(lo + i)]
    IN SelectSeq(inner, LAMBDA cell : cell \notin group)
       \o <<At(lo - 1), At(hi + 1)>>

\* Variant whose pattern probing is not capped by ships_found_count.
P2M2STDirectional_get_target_candidates_for_group_uncapped(st, group) ==
    IF Cardinality(group) = 1
    THEN LET origin == CHOOSE hit \in group : TRUE
         IN {Ordered(get_p2m2_pattern(origin) \o get_adjacent_pattern(origin))}
    ELSE LET rows == {hit[1] : hit \in group}
             cols == {hit[2] : hit \in group}
         IN IF Cardinality(rows) = 1
            THEN {Ordered(LineCandidates(group, TRUE, MinOf(rows),
                                         MinOf(cols), MaxOf(cols)))}
            ELSE IF Cardinality(cols) = 1
            THEN {Ordered(LineCandidates(group, FALSE, MinOf(cols),
                                         MinOf(rows), MaxOf(rows)))}
            ELSE {Ordered(FlattenPatterns(order, TRUE, 1)
                          \o FlattenPatterns(order, FALSE, 1)) :
                      order \in Perms(group)}

\* _get_target_candidates_for_group: every list it can return (one for each
\* order of iterating over the group)
P2M2STDirectional_get_target_candidates_for_group(st, group) ==
    IF Cardinality(group) = 1
    THEN LET origin == CHOOSE hit \in group : TRUE
         IN IF st.ships_found_count <= 4
            THEN {Ordered(get_p2m2_pattern(origin) \o get_adjacent_pattern(origin))}
            ELSE {Ordered(get_adjacent_pattern(origin))}
    ELSE LET rows == {hit[1] : hit \in group}
             cols == {hit[2] : hit \in group}
         IN IF Cardinality(rows) = 1
            THEN {Ordered(LineCandidates(group, TRUE, MinOf(rows),
                                         MinOf(cols), MaxOf(cols)))}
            ELSE IF Cardinality(cols) = 1
            THEN {Ordered(LineCandidates(group, FALSE, MinOf(cols),
                                         MinOf(rows), MaxOf(rows)))}
            ELSE IF st.ships_found_count <= 4
            THEN {Ordered(FlattenPatterns(order, TRUE, 1)
                          \o FlattenPatterns(order, FALSE, 1)) :
                      order \in Perms(group)}
            ELSE {Ordered(FlattenPatterns(order, FALSE, 1)) :
                      order \in Perms(group)}

\* Whether some candidate of the group is valid (the same for every order)
P2M2STDirectional_boxed_in(st, group) ==
    \A blocks \in P2M2STDirectional_get_target_candidates_for_group(st, group) :
        ~BlocksHaveValid(blocks, st.fired_shots)

P2M2STDirectional_update_target_groups(st, hits) ==
    LET new_hits == SeqToSet(hits) \ GroupedHits(st.target_groups)
        st1 == IF st.target_groups = <<>>
               THEN [st EXCEPT !.ships_found_count = @ + 1] ELSE st
    IN IF new_hits = {} THEN {st}
       ELSE {[st1 EXCEPT !.target_groups = AddHitsToGroups(@, order)] :
                 order \in Perms(new_hits)}

P2M2STDirectional_check_for_sunk_ships(st) ==
    LET boxed == [i \in DOMAIN st.target_groups |->
                     P2M2STDirectional_boxed_in(st, st.target_groups[i])]
        scan == SunkScan(st.target_groups, boxed, 1, st.remaining_ships, {})
    IN [st EXCEPT !.remaining_ships = scan.remaining_ships,
                  !.target_groups = RemoveIndices(@, scan.sunk)]

P2M2STDirectional_get_shot(st, cell) ==
    Returned(cell, [st EXCEPT !.fired_shots = @ \cup {cell},
                              !.last_shot_coord = cell])

\* The hunt loop: popleft until an entry is valid and unfired
RECURSIVE PopLeftSeq(_, _)
PopLeftSeq(queue, fired) ==
    IF queue = <<>> THEN [item |-> NoCell, rest |-> queue]
    ELSE IF is_valid_and_unfired(Head(queue), fired)
    THEN [item |-> Head(queue), rest |-> Tail(queue)]
    ELSE PopLeftSeq(Tail(queue), fired)

P2M2STDirectional_choose(st) ==
    LET sorted == SortedByLen(st.target_groups)
        live == {i \in DOMAIN sorted : ~P2M2STDirectional_boxed_in(st, sorted[i])}
        p == PopLeftSeq(st.hunt_targets, st.fired_shots)
    IN IF live # {}
       THEN {P2M2STDirectional_get_shot(st, cell) :
                 cell \in UNION {FirstValidOfBlocks(blocks, st.fired_shots) :
                     blocks \in P2M2STDirectional_get_target_candidates_for_group(
                                    st, sorted[MinOf(live)])}}
       ELSE IF p.item # NoCell
       THEN {P2M2STDirectional_get_shot([st EXCEPT !.hunt_targets = p.rest], p.item)}
       ELSE IF RandomUnfired(st.fired_shots) = {}
       THEN {Raised("hang", [st EXCEPT !.hunt_targets = p.rest])}
       ELSE {P2M2STDirectional_get_shot([st EXCEPT !.hunt_targets = p.rest], cell) :
                 cell \in RandomUnfired(st.fired_shots)}

P2M2STDirectional_next_shot(st0, view, hits) ==
    LET st1 == IF st0.last_shot_coord # NoCell
                  /\ view[st0.last_shot_coord] = "MISS"
               THEN P2M2STDirectional_check_for_sunk_ships(st0) ELSE st0
    IN UNION {P2M2STDirectional_choose(st) :
                  st \in P2M2STDirectional_update_target_groups(st1, hits)}

\* --- algorithms/p2m2_optimized.py
\* The fleet assumed when ship_config is empty
DefaultRemainingShips == (2 :> 1) @@ (3 :> 2) @@ (4 :> 1) @@ (5 :> 1)

P2M2Optimized_init ==
    [fired_shots |-> {}, hunt_targets |-> EmptyHunt, remaining_ships |-> <<>>,
     target_groups |-> <<>>, ships_found_count |-> 0, ship_config |-> <<>>]

P2M2Optimized_new(config) == [P2M2Optimized_init EXCEPT !.ship_config = config]

P2M2Optimized_reset(st) ==
    {[st EXCEPT !.fired_shots = {}, !.target_groups = <<>>,
                !.ships_found_count = 0,
                !.remaining_ships = IF Len(st.ship_config) > 0
                                    THEN CounterOf(st.ship_config)
                                    ELSE DefaultRemainingShips,
                !.hunt_targets = [front |-> ParityCells(0), back |-> {}]]}

\* The run of valid unfired cells from `cell` in direction (dr, dc), at most
\* limit - 1 long
RECURSIVE FreeRun(_, _, _, _, _, _)
FreeRun(cell, dr, dc, i, limit, fired) ==
    IF i >= limit THEN 0
    ELSE IF is_valid_and_unfired(<<cell[1] + dr * i, cell[2] + dc * i>>, fired)
    THEN 1 + FreeRun(cell, dr, dc, i + 1, limit, fired)
    ELSE 0

P2M2Optimized_is_space_large_enough_for_any_ship(st, cell) ==
    IF CounterSum(st.remaining_ships) = 0 THEN TRUE
    ELSE LET min_ship_size == MinOf(DOMAIN st.remaining_ships)
             h_space == 1 + FreeRun(cell, 0, -1, 1, min_ship_size, st.fired_shots)
                          + FreeRun(cell, 0, 1, 1, min_ship_size, st.fired_shots)
             v_space == 1 + FreeRun(cell, -1, 0, 1, min_ship_size, st.fired_shots)
                          + FreeRun(cell, 1, 0, 1, min_ship_size, st.fired_shots)
         IN h_space >= min_ship_size \/ v_space >= min_ship_size

P2M2Optimized_has_alternating_hit_pattern(group) ==
    /\ Cardinality(group) >= 2
    /\ \E a \in group, b \in group :
          \/ (a[1] - b[1] = 2 /\ a[2] = b[2])
          \/ (a[2] - b[2] = 2 /\ a[1] = b[1])

P2M2Optimized_get_gap_filling_candidates(group) ==
    LET rows == {hit[1] : hit \in group}
        cols == {hit[2] : hit \in group}
    IN IF Cardinality(rows) = 1
       THEN LineCandidates(group, TRUE, MinOf(rows), MinOf(cols), MaxOf(cols))
       ELSE IF Cardinality(cols) = 1
       THEN LineCandidates(group, FALSE, MinOf(cols), MinOf(rows), MaxOf(rows))
       ELSE <<>>

P2M2Optimized_get_target_candidates_for_group(group) ==
    IF Cardinality(group) = 1
    THEN LET origin == CHOOSE hit \in group : TRUE
         IN {Ordered(get_p2m2_pattern(origin) \o get_adjacent_pattern(origin))}
    ELSE IF P2M2Optimized_has_alternating_hit_pattern(group)
    THEN {Ordered(P2M2Optimized_get_gap_filling_candidates(group))}
    ELSE IF Cardinality({hit[1] : hit \in group}) = 1
            \/ Cardinality({hit[2] : hit \in group}) = 1
    THEN {Ordered(P2M2Optimized_get_gap_filling_candidates(group))}
    ELSE {Ordered(FlattenPatterns(order, FALSE, 1)) : order \in Perms(group)}

P2M2Optimized_boxed_in(st, group) ==
    \A blocks \in P2M2Optimized_get_target_candidates_for_group(group) :
        ~BlocksHaveValid(blocks, st.fired_shots)

P2M2Optimized_check_sunk(st) ==
    LET boxed == [i \in DOMAIN st.target_groups |->
                     P2M2Optimized_boxed_in(st, st.target_groups[i])]
        scan == SunkScan(st.target_groups, boxed, 1, st.remaining_ships, {})
    IN [st EXCEPT !.remaining_ships = scan.remaining_ships,
                  !.target_groups = RemoveIndices(@, scan.sunk)]

P2M2Optimized_update_and_check_groups(st, hits) ==
    LET new_hits == SeqToSet(hits) \ GroupedHits(st.target_groups)
        st1 == IF st.target_groups = <<>>
               THEN [st EXCEPT !.ships_found_count = @ + 1] ELSE st
    IN IF new_hits = {} THEN {st}
       ELSE {P2M2Optimized_check_sunk(
                 [st1 EXCEPT !.target_groups = AddHitsToGroups(@, order)]) :
                 order \in Perms(new_hits)}

P2M2Optimized_get_shot(st, cell) ==
    Returned(cell, [st EXCEPT !.fired_shots = @ \cup {cell}])

P2M2Optimized_choose(st) ==
    LET sorted == SortedByLen(st.target_groups)
        live == {i \in DOMAIN sorted : ~P2M2Optimized_boxed_in(st, sorted[i])}
        \* game_progress > 0.6, in whole numbers
        use_space_check ==
            Cardinality(st.fired_shots) * 5 > BoardSize * BoardSize * 3
        keep == {cell \in Cells \ st.fired_shots :
                     \/ ~use_space_check
                     \/ P2M2Optimized_is_space_large_enough_for_any_ship(st, cell)}
    IN IF live # {}
       THEN {P2M2Optimized_get_shot(st, cell) :
                 cell \in UNION {FirstValidOfBlocks(blocks, st.fired_shots) :
                     blocks \in P2M2Optimized_get_target_candidates_for_group(
                                    sorted[MinOf(live)])}}
       ELSE UNION {IF p.item # NoCell
                   THEN {P2M2Optimized_get_shot([st EXCEPT !.hunt_targets = p.rest],
                                                p.item)}
                   ELSE IF RandomUnfired(st.fired_shots) = {}
                   THEN {Raised("RuntimeError", [st EXCEPT !.hunt_targets = p.rest])}
                   ELSE {P2M2Optimized_get_shot([st EXCEPT !.hunt_targets = p.rest],
                                                cell) :
                             cell \in RandomUnfired(st.fired_shots)} :
                   p \in PopLeftLoop(st.hunt_targets, keep)}

P2M2Optimized_next_shot(st0, view, hits) ==
    UNION {P2M2Optimized_choose(st) :
               st \in P2M2Optimized_update_and_check_groups(st0, hits)}

\* --- algorithms/generic_algorithm.py
\* A document is [name, initial_state, queues, variables, states]; a state's
\* entry is [on_entry, next_shot, transitions]; an action is [action, queue,
\* variable, condition]; a condition is [kind, name, value], kind "none"
\* standing for an action that has no "condition" key.  A queue is a
\* sequence of non-empty blocks (see Ordered).
NoCondition == [kind |-> "none", name |-> "", value |-> 0]

ActionOn(action, queue) ==
    [action |-> action, queue |-> queue, variable |-> "", condition |-> NoCondition]

\* json_algorithms/random_search.json
RandomSearchDocument ==
    [name |-> "Random Search (JSON)",
     initial_state |-> "SEARCH",
     queues |-> {},
     variables |-> <<>>,
     states |-> [s \in {"SEARCH"} |->
         [on_entry |-> <<>>,
          next_shot |-> <<ActionOn("generate_random_shot", "")>>,
          transitions |-> <<>>]]]

\* json_algorithms/p2m2_json.json
P2M2Document ==
    [name |-> "P2M2 (JSON)",
     initial_state |-> "HUNT",
     queues |-> {"hunt_queue", "target_queue"},
     variables |-> [v \in {"ships_found_count"} |-> 0],
     states |-> [s \in {"HUNT", "TARGET"} |->
         IF s = "HUNT"
         THEN [on_entry |-> <<ActionOn("generate_checkerboard_hunt", "hunt_queue")>>,
               next_shot |-> <<ActionOn("pop_from_queue", "hunt_queue")>>,
               transitions |-> <<[condition |-> [kind |-> "on_hit", name |-> "",
                                                 value |-> 0],
                                  next_state |-> "TARGET"]>>]
         ELSE [on_entry |->
                   <<[action |-> "increment_variable", queue |-> "",
                      variable |-> "ships_found_count",
                      condition |-> NoCondition],
                     ActionOn("add_p2m2_to_queue", "target_queue"),
                     ActionOn("add_adjacent_to_queue", "target_queue")>>,
               next_shot |-> <<ActionOn("pop_from_queue", "target_queue")>>,
               transitions |-> <<[condition |-> [kind |-> "queue_empty",
                                                 name |-> "target_queue",
                                                 value |-> 0],
                                  next_state |-> "HUNT"]>>]]]

JSON_ALGORITHM_REGISTRY ==
    [algo_id \in {"random_search", "p2m2_json"} |->
        IF algo_id = "random_search" THEN RandomSearchDocument ELSE P2M2Document]

\* An outcome of running actions: the state left, the coordinate produced
\* (NoCell for None) and how the run ended: "None" for a return, "hang" for
\* a loop that never ends, else the exception raised.
GenericOutcome(st, shot, raised) == [st |-> st, shot |-> shot, raised |-> raised]

GenericAlgorithm_init(algorithm_json) ==
    [config |-> algorithm_json, fired_shots |-> {}, active_hits |-> {},
     last_shot_returned |-> NoCell, queues |-> <<>>, variables |-> <<>>,
     current_state |-> ""]

GenericAlgorithm_state_config(st) ==
    IF st.current_state \in DOMAIN st.config.states
    THEN st.config.states[st.current_state]
    ELSE [on_entry |-> <<>>, next_shot |-> <<>>, transitions |-> <<>>]

\* deque.popleft() until an entry is unfired
RECURSIVE PopLeftBlocks(_, _)
PopLeftBlocks(queue, fired) ==
    IF queue = <<>> THEN {[item |-> NoCell, rest |-> queue]}
    ELSE IF Head(queue) \ fired = {} THEN PopLeftBlocks(Tail(queue), fired)
    ELSE {[item |-> p.item,
           rest |-> IF p.left = {} THEN Tail(queue) ELSE <<p.left>> \o Tail(queue)] :
              p \in PopShuffled(Head(queue), Cells \ fired)}

GenericAlgorithm_get_random_unfired_shot(st) ==
    IF RandomUnfired(st.fired_shots) = {} THEN {GenericOutcome(st, NoCell, "hang")}
    ELSE {GenericOutcome(st, cell, "None") : cell \in RandomUnfired(st.fired_shots)}

GenericAlgorithm_generate_checkerboard_pattern ==
    {<<ParityCells(parity), ParityCells(1 - parity)>> : parity \in {0, 1}}

\* Variant that keeps the on-board test and drops the fired test.
GenericAlgorithm_add_valid_shots_to_queue_fired_too(st, shots, queue_name) ==
    [st EXCEPT !.queues[queue_name] =
        @ \o Ordered(SelectSeq(shots, LAMBDA cell : cell \in Cells))]

GenericAlgorithm_add_valid_shots_to_queue(st, shots, queue_name) ==
    [st EXCEPT !.queues[queue_name] =
        @ \o Ordered(SelectSeq(shots,
                 LAMBDA cell : is_valid_and_unfired(cell, st.fired_shots)))]

\* Variant in which self.variables is the document's own "variables"
\* dictionary, so counting writes into the document as well.
GenericAlgorithm_execute_action_shared_variables(st, action_config, last_hit) ==
    LET action == action_config.action
        r == last_hit[1]
        c == last_hit[2]
        adjacent == << <<r - 1, c>>, <<r + 1, c>>, <<r, c - 1>>, <<r, c + 1>> >>
        p2m2 == << <<r - 2, c>>, <<r + 2, c>>, <<r, c - 2>>, <<r, c + 2>> >>
        key_error ==
            \/ /\ action \in {"pop_from_queue", "generate_diagonal_hunt",
                              "generate_checkerboard_hunt"}
               /\ action_config.queue \notin DOMAIN st.queues
            \/ /\ action = "increment_variable"
               /\ action_config.variable \notin DOMAIN st.variables
            \/ /\ action \in {"add_adjacent_to_queue", "add_p2m2_to_queue"}
               /\ last_hit # NoCell
               /\ action_config.queue \notin DOMAIN st.queues
               /\ \E cell \in SeqToSet(IF action = "add_adjacent_to_queue"
                                       THEN adjacent ELSE p2m2) :
                      is_valid_and_unfired(cell, st.fired_shots)
    IN IF key_error THEN {GenericOutcome(st, NoCell, "KeyError")}
       ELSE
       CASE action = "pop_from_queue" ->
                {GenericOutcome([st EXCEPT !.queues[action_config.queue] = p.rest],
                                p.item, "None") :
                     p \in PopLeftBlocks(st.queues[action_config.queue],
                                         st.fired_shots)}
         [] action = "generate_random_shot" ->
                GenericAlgorithm_get_random_unfired_shot(st)
         [] action = "generate_diagonal_hunt" ->
                {GenericOutcome(
                     [st EXCEPT !.queues[action_config.queue] =
                          @ \o Ordered(SelectCells(generate_diagonal_hunt_paths,
                                                   ParityCells(0)))],
                     NoCell, "None")}
         [] action = "generate_checkerboard_hunt" ->
                {GenericOutcome([st EXCEPT !.queues[action_config.queue] =
                                     @ \o pattern], NoCell, "None") :
                     pattern \in GenericAlgorithm_generate_checkerboard_pattern}
         [] action = "increment_variable" ->
                {GenericOutcome(
                     [st EXCEPT !.variables[action_config.variable] = @ + 1,
                                !.config.variables[action_config.variable] = @ + 1],
                     NoCell, "None")}
         [] action = "add_adjacent_to_queue" /\ last_hit # NoCell ->
                {GenericOutcome(
                     IF action_config.queue \in DOMAIN st.queues
                     THEN GenericAlgorithm_add_valid_shots_to_queue(
                              st, adjacent, action_config.queue)
                     ELSE st,
                     NoCell, "None")}
         [] action = "add_p2m2_to_queue" /\ last_hit # NoCell ->
                {GenericOutcome(
                     IF action_config.queue \in DOMAIN st.queues
                     THEN GenericAlgorithm_add_valid_shots_to_queue(
                              st, p2m2, action_config.queue)
                     ELSE st,
                     NoCell, "None")}
         [] OTHER -> {GenericOutcome(st, NoCell, "None")}

GenericAlgorithm_execute_action(st, action_config, last_hit) ==
    LET action == action_config.action
        r == last_hit[1]
        c == last_hit[2]
        adjacent == << <<r - 1, c>>, <<r + 1, c>>, <<r, c - 1>>, <<r, c + 1>> >>
        p2m2 == << <<r - 2, c>>, <<r + 2, c>>, <<r, c - 2>>, <<r, c + 2>> >>
        \* self.queues[...] and self.variables[...] of a name that is not a key
        key_error ==
            \/ /\ action \in {"pop_from_queue", "generate_diagonal_hunt",
                              "generate_checkerboard_hunt"}
               /\ action_config.queue \notin DOMAIN st.queues
            \/ /\ action = "increment_variable"
               /\ action_config.variable \notin DOMAIN st.variables
            \/ /\ action \in {"add_adjacent_to_queue", "add_p2m2_to_queue"}
               /\ last_hit # NoCell
               /\ action_config.queue \notin DOMAIN st.queues
               /\ \E cell \in SeqToSet(IF action = "add_adjacent_to_queue"
                                       THEN adjacent ELSE p2m2) :
                      is_valid_and_unfired(cell, st.fired_shots)
    IN IF key_error THEN {GenericOutcome(st, NoCell, "KeyError")}
       ELSE
       CASE action = "pop_from_queue" ->
                {GenericOutcome([st EXCEPT !.queues[action_config.queue] = p.rest],
                                p.item, "None") :
                     p \in PopLeftBlocks(st.queues[action_config.queue],
                                         st.fired_shots)}
         [] action = "generate_random_shot" ->
                GenericAlgorithm_get_random_unfired_shot(st)
         [] action = "generate_diagonal_hunt" ->
                {GenericOutcome(
                     [st EXCEPT !.queues[action_config.queue] =
                          @ \o Ordered(SelectCells(generate_diagonal_hunt_paths,
                                                   ParityCells(0)))],
                     NoCell, "None")}
         [] action = "generate_checkerboard_hunt" ->
                {GenericOutcome([st EXCEPT !.queues[action_config.queue] =
                                     @ \o pattern], NoCell, "None") :
                     pattern \in GenericAlgorithm_generate_checkerboard_pattern}
         [] action = "increment_variable" ->
                {GenericOutcome([st EXCEPT !.variables[action_config.variable] =
                                     @ + 1], NoCell, "None")}
         [] action = "add_adjacent_to_queue" /\ last_hit # NoCell ->
                {GenericOutcome(
                     IF action_config.queue \in DOMAIN st.queues
                     THEN GenericAlgorithm_add_valid_shots_to_queue(
                              st, adjacent, action_config.queue)
                     ELSE st,
                     NoCell, "None")}
         [] action = "add_p2m2_to_queue" /\ last_hit # NoCell ->
                {GenericOutcome(
                     IF action_config.queue \in DOMAIN st.queues
                     THEN GenericAlgorithm_add_valid_shots_to_queue(
                              st, p2m2, action_config.queue)
                     ELSE st,
                     NoCell, "None")}
         [] OTHER -> {GenericOutcome(st, NoCell, "None")}

GenericAlgorithm_evaluate_condition(st, condition, last_shot_result) ==
    CASE condition.kind = "on_hit" -> last_shot_result = "HIT"
      [] condition.kind = "on_miss" -> last_shot_result = "MISS"
      [] condition.kind = "queue_empty" ->
             \/ condition.name \notin DOMAIN st.queues
             \/ st.queues[condition.name] = <<>>
      [] condition.kind = "variable_less_equal" ->
             (IF condition.name \in DOMAIN st.variables
              THEN st.variables[condition.name] ELSE 0) <= condition.value
      [] OTHER -> FALSE

\* _execute_on_entry_actions, from the i-th action on
RECURSIVE GenericAlgorithm_execute_on_entry_actions(_, _, _)
GenericAlgorithm_execute_on_entry_actions(st, i, last_hit) ==
    LET on_entry_actions == GenericAlgorithm_state_config(st).on_entry
    IN IF i > Len(on_entry_actions) THEN {GenericOutcome(st, NoCell, "None")}
       ELSE UNION {IF o.raised # "None" THEN {o}
                   ELSE GenericAlgorithm_execute_on_entry_actions(o.st, i + 1,
                                                                  last_hit) :
                   o \in GenericAlgorithm_execute_action(st, on_entry_actions[i],
                                                         last_hit)}

\* reset(): every outcome; self.config["initial_state"] of a document
\* without that key raises KeyError
GenericAlgorithm_reset_outcomes(st) ==
    LET cleared == [st EXCEPT !.fired_shots = {}, !.active_hits = {},
                              !.last_shot_returned = NoCell,
                              !.queues = [q \in st.config.queues |-> <<>>],
                              !.variables = st.config.variables]
    IN IF "initial_state" \notin DOMAIN st.config
       THEN {GenericOutcome(cleared, NoCell, "KeyError")}
       ELSE GenericAlgorithm_execute_on_entry_actions(
                [cleared EXCEPT !.current_state = st.config.initial_state],
                1, NoCell)

\* reset() where it returns
GenericAlgorithm_reset(st) ==
    {o.st : o \in {x \in GenericAlgorithm_reset_outcomes(st) : x.raised = "None"}}

\* Variant that goes on to the transitions of the state just entered.
GenericAlgorithm_check_transitions_chained(st, last_shot_result, hits) ==
    LET last_hit == IF last_shot_result = "HIT" /\ hits # <<>>
                    THEN hits[Len(hits)] ELSE NoCell
        Step(s) ==
            LET transitions == GenericAlgorithm_state_config(s).transitions
                firing == {i \in DOMAIN transitions :
                               GenericAlgorithm_evaluate_condition(
                                   s, transitions[i].condition, last_shot_result)}
            IN IF firing = {} THEN {GenericOutcome(s, NoCell, "None")}
               ELSE GenericAlgorithm_execute_on_entry_actions(
                        [s EXCEPT !.current_state =
                             transitions[MinOf(firing)].next_state],
                        1, last_hit)
    IN UNION {IF t.raised # "None" THEN {t} ELSE Step(t.st) : t \in Step(st)}

GenericAlgorithm_check_transitions_of_initial_state(st, last_shot_result, hits) ==
    LET transitions == st.config.states[st.config.initial_state].transitions
        firing == {i \in DOMAIN transitions :
                       GenericAlgorithm_evaluate_condition(
                           st, transitions[i].condition, last_shot_result)}
        last_hit == IF last_shot_result = "HIT" /\ hits # <<>>
                    THEN hits[Len(hits)] ELSE NoCell
    IN IF firing = {} THEN {GenericOutcome(st, NoCell, "None")}
       ELSE GenericAlgorithm_execute_on_entry_actions(
                [st EXCEPT !.current_state = transitions[MinOf(firing)].next_state],
                1, last_hit)

GenericAlgorithm_check_transitions(st, last_shot_result, hits) ==
    LET transitions == GenericAlgorithm_state_config(st).transitions
        firing == {i \in DOMAIN transitions :
                       GenericAlgorithm_evaluate_condition(
                           st, transitions[i].condition, last_shot_result)}
        last_hit == IF last_shot_result = "HIT" /\ hits # <<>>
                    THEN hits[Len(hits)] ELSE NoCell
    IN IF firing = {} THEN {GenericOutcome(st, NoCell, "None")}
       ELSE GenericAlgorithm_execute_on_entry_actions(
                [st EXCEPT !.current_state = transitions[MinOf(firing)].next_state],
                1, last_hit)

\* Variant that ends the search with the first action it runs.
RECURSIVE GenericAlgorithm_get_next_shot_from_actions_first_run(_, _, _)
GenericAlgorithm_get_next_shot_from_actions_first_run(st, i, hits) ==
    LET actions == GenericAlgorithm_state_config(st).next_shot
        last_hit == IF hits # <<>> THEN hits[Len(hits)] ELSE NoCell
    IN IF i > Len(actions) THEN {GenericOutcome(st, NoCell, "None")}
       ELSE IF actions[i].condition.kind # "none"
               /\ ~GenericAlgorithm_evaluate_condition(st, actions[i].condition,
                                                       "None")
       THEN GenericAlgorithm_get_next_shot_from_actions_first_run(st, i + 1, hits)
       ELSE GenericAlgorithm_execute_action(st, actions[i], last_hit)

\* _get_next_shot_from_actions, from the i-th action on
RECURSIVE GenericAlgorithm_get_next_shot_from_actions(_, _, _)
GenericAlgorithm_get_next_shot_from_actions(st, i, hits) ==
    LET actions == GenericAlgorithm_state_config(st).next_shot
        last_hit == IF hits # <<>> THEN hits[Len(hits)] ELSE NoCell
    IN IF i > Len(actions) THEN {GenericOutcome(st, NoCell, "None")}
       ELSE IF actions[i].condition.kind # "none"
               /\ ~GenericAlgorithm_evaluate_condition(st, actions[i].condition,
                                                       "None")
       THEN GenericAlgorithm_get_next_shot_from_actions(st, i + 1, hits)
       ELSE UNION {IF \/ o.raised # "None"
                      \/ (o.shot # NoCell /\ o.shot \notin o.st.fired_shots)
                   THEN {o}
                   ELSE GenericAlgorithm_get_next_shot_from_actions(o.st, i + 1,
                                                                    hits) :
                   o \in GenericAlgorithm_execute_action(st, actions[i], last_hit)}

\* Steps 5 and 6 of next_shot
GenericAlgorithm_record(o) ==
    LET Done(st, shot) ==
            Returned(shot, [st EXCEPT !.fired_shots = @ \cup {shot},
                                      !.last_shot_returned = shot])
    IN IF o.raised # "None" THEN {Raised(o.raised, o.st)}
       ELSE IF o.shot = NoCell \/ o.shot \in o.st.fired_shots
       THEN {IF f.raised # "None" THEN Raised(f.raised, f.st)
             ELSE Done(f.st, f.shot) :
                 f \in GenericAlgorithm_get_random_unfired_shot(o.st)}
       ELSE {Done(o.st, o.shot)}

\* Variant in which a new hit does not override the result read off the view.
GenericAlgorithm_next_shot_no_override(st0, view, hits) ==
    LET determined == IF st0.last_shot_returned # NoCell
                         /\ view[st0.last_shot_returned] = "MISS"
                      THEN "MISS" ELSE "None"
        newly_found_hits == SeqToSet(hits) \ st0.active_hits
        st1 == [st0 EXCEPT !.active_hits = @ \cup newly_found_hits]
        last_shot_result == IF determined = "MISS" THEN "MISS"
                            ELSE IF newly_found_hits # {} THEN "HIT" ELSE "None"
    IN UNION {IF t.raised # "None" THEN {Raised(t.raised, t.st)}
              ELSE UNION {GenericAlgorithm_record(o) :
                       o \in GenericAlgorithm_get_next_shot_from_actions(t.st, 1,
                                                                         hits)} :
              t \in GenericAlgorithm_check_transitions(st1, last_shot_result, hits)}

GenericAlgorithm_next_shot(st0, view, hits) ==
    LET determined == IF st0.last_shot_returned # NoCell
                         /\ view[st0.last_shot_returned] = "MISS"
                      THEN "MISS" ELSE "None"
        newly_found_hits == SeqToSet(hits) \ st0.active_hits
        st1 == [st0 EXCEPT !.active_hits = @ \cup newly_found_hits]
        last_shot_result == IF newly_found_hits # {} THEN "HIT" ELSE determined
    IN UNION {IF t.raised # "None" THEN {Raised(t.raised, t.st)}
              ELSE UNION {GenericAlgorithm_record(o) :
                       o \in GenericAlgorithm_get_next_shot_from_actions(t.st, 1,
                                                                         hits)} :
              t \in GenericAlgorithm_check_transitions(st1, last_shot_result, hits)}

\* ------------------------------------------------------- algorithm registry
\* registry.py: the ids are the lower-cased class names.
\* The ids of registry.py (the lowercase class names) and of json_registry.py
\* (the document file names)
\* base.py: an implementation of TargetingAlgorithm that does not keep to
\* "a valid, untargeted square": it fires the board row by row, in any order
\* within a row, and at any turn may return a square already known instead.
TargetingAlgorithm_next_shot(st, view, hits) ==
    LET unknown == {cell \in Cells : view[cell] = "UNKNOWN"}
        row == MinOf({cell[1] : cell \in unknown})
    IN {Returned(cell, st) :
            cell \in (Cells \ unknown) \cup {u \in unknown : u[1] = row}}

ALGORITHM_REGISTRY ==
    {"randomsearch", "huntandtarget", "smarttarget", "p2m2enhanced",
     "p2m2optimized", "p2m2stdirectional"}

Algorithms == ALGORITHM_REGISTRY \cup DOMAIN JSON_ALGORITHM_REGISTRY

\* cls(board_size, ship_config) up to the call of reset()
alg_init(algo_id, config) ==
    CASE algo_id = "randomsearch" -> RandomSearch_init
      [] algo_id = "huntandtarget" -> HuntAndTarget_init
      [] algo_id = "smarttarget" -> SmartTarget_new(config)
      [] algo_id = "p2m2enhanced" -> P2M2Enhanced_init
      [] algo_id = "p2m2optimized" -> P2M2Optimized_new(config)
      [] algo_id = "p2m2stdirectional" -> P2M2STDirectional_new(config)
      [] algo_id = "targetingalgorithm" -> <<>>
      [] OTHER -> GenericAlgorithm_init(JSON_ALGORITHM_REGISTRY[algo_id])

\* algorithm.reset(): every state it can leave
alg_reset(algo_id, st) ==
    CASE algo_id = "randomsearch" -> RandomSearch_reset(st)
      [] algo_id = "huntandtarget" -> HuntAndTarget_reset(st)
      [] algo_id = "smarttarget" -> SmartTarget_reset(st)
      [] algo_id = "p2m2enhanced" -> P2M2Enhanced_reset(st)
      [] algo_id = "p2m2optimized" -> P2M2Optimized_reset(st)
      [] algo_id = "p2m2stdirectional" -> P2M2STDirectional_reset(st)
      [] algo_id = "targetingalgorithm" -> {st}
      [] OTHER -> GenericAlgorithm_reset(st)

\* algorithm.next_shot(player_view, hit_history): every outcome
alg_next_shot(algo_id, st, view, hits) ==
    CASE algo_id = "randomsearch" -> RandomSearch_next_shot(st, view, hits)
      [] algo_id = "huntandtarget" -> HuntAndTarget_next_shot(st, view, hits)
      [] algo_id = "smarttarget" -> SmartTarget_next_shot(st, view, hits)
      [] algo_id = "p2m2enhanced" -> P2M2Enhanced_next_shot(st, view, hits)
      [] algo_id = "p2m2optimized" -> P2M2Optimized_next_shot(st, view, hits)
      [] algo_id = "p2m2stdirectional" ->
             P2M2STDirectional_next_shot(st, view, hits)
      [] algo_id = "targetingalgorithm" ->
             TargetingAlgorithm_next_shot(st, view, hits)
      [] OTHER -> GenericAlgorithm_next_shot(st, view, hits)

\* get_algorithm_instance / get_json_algorithm_instance: the constructor,
\* which ends with a call of reset()
get_algorithm_instance(algo_id, config) ==
    alg_reset(algo_id, alg_init(algo_id, config))

\* ---------------------------------------------------------------- the driver
\* The indices a Python list of BoardSize entries accepts, and the entry a
\* (possibly negative) index reads
ListIndices == (0 - BoardSize) .. (BoardSize - 1)

Coordinates == ListIndices \X ListIndices

ListEntry(i) == IF i < 0 THEN i + BoardSize ELSE i

\* shots_fired_coords as the number of times each coordinate is in the list
NoShots == [cell \in Coordinates |-> 0]

UnknownView == [cell \in Cells |-> "UNKNOWN"]

\* len(shots_fired_coords)
ShotCount == SumOver(shots_fired_coords, Coordinates)

FiredCells == {cell \in Coordinates : shots_fired_coords[cell] > 0}

\* The caller's grids of the runs explored.
LayoutA ==
    GridOf((<<0, 0>> :> "Destroyer") @@ (<<0, 1>> :> "Destroyer")
           @@ (<<2, 2>> :> "Submarine"))

LayoutB ==
    GridOf((<<1, 0>> :> "Cruiser") @@ (<<1, 1>> :> "Cruiser")
           @@ (<<1, 2>> :> "Cruiser") @@ (<<2, 1>> :> "Submarine"))

\* The heap with the caller's grid objects at 1.. and the game's own at 0.
HeapOf(caller_grids) ==
    [ref \in 0 .. Len(caller_grids) |->
        IF ref = 0 THEN EmptyGrid ELSE caller_grids[ref]]

InitPlay ==
    /\ shots_fired_coords = NoShots
    /\ hit_history = <<>>
    /\ player_view = UnknownView
    /\ turns = 0
    /\ last_shot = NoCell
    /\ result = "None"

Init ==
    /\ algorithm \in Algorithms
    /\ ship_config = <<Destroyer>>
    /\ \/ /\ ship_placement_strategy = "random_each_round"
          /\ heap = HeapOf(<<>>)
       \/ /\ ship_placement_strategy = "fixed_for_all_rounds"
          /\ heap = HeapOf(<<LayoutA>>)
       \/ /\ ship_placement_strategy = "random_from_set"
          /\ heap = HeapOf(<<LayoutA, LayoutB>>)
    /\ solution_grid = 0
    /\ total_ship_segments = 0
    /\ hits_made = 0
    /\ pc = "start"
    /\ error = "None"
    /\ games_played = 0
    /\ InitPlay
    /\ alg = alg_init(algorithm, ship_config)
    /\ place = [ship |-> 0, attempts |-> 0]
    /\ shots_per_game = <<>>
    /\ heat_map_grid = [cell \in Cells |-> 0]
    /\ algorithms = <<>>
    /\ game_template = "None"
    /\ random_state = "None"

\* run(): algorithm = get_algorithm_instance(...)
CreateAlgorithm ==
    /\ pc = "start"
    /\ alg' \in get_algorithm_instance(algorithm, ship_config)
    /\ pc' = "new_game"
    /\ UNCHANGED <<paramVars, random_state, statVars, compVars, gameVars, playVars, error, games_played,
                   place>>

\* run(): one pass of the for loop up to the call of _play_single_game:
\* get_game_instance, algorithm.reset(), and _play_single_game's locals.
StartGame ==
    /\ pc = "new_game"
    /\ games_played < NumSimulations
    /\ \E g \in get_game_instance(ship_placement_strategy, heap, ship_config) :
          IF g.error # "None"
          THEN /\ pc' = "crashed"
               /\ error' = g.error
               /\ UNCHANGED <<gameVars, playVars, alg>>
          ELSE /\ heap' = g.heap
               /\ solution_grid' = g.solution_grid
               /\ total_ship_segments' = g.total_ship_segments
               /\ hits_made' = g.hits_made
               /\ alg' \in alg_reset(algorithm, alg)
               /\ shots_fired_coords' = NoShots
               /\ hit_history' = <<>>
               /\ player_view' = UnknownView
               /\ turns' = 0
               /\ last_shot' = NoCell
               /\ result' = "None"
               /\ pc' = "playing"
               /\ error' = error
    /\ UNCHANGED <<paramVars, random_state, statVars, compVars, games_played, place>>

\* _play_single_game with the append moved before the test of the view.
PlayTurn_append_before_check ==
    /\ pc = "playing"
    /\ ~is_game_over
    /\ \E out \in alg_next_shot(algorithm, alg, player_view, hit_history) :
          /\ alg' = out.st
          /\ IF out.raised = "hang"
             THEN /\ pc' = "hung"
                  /\ UNCHANGED <<gameVars, playVars, error>>
             ELSE IF out.raised # "None"
             THEN /\ pc' = "crashed"
                  /\ error' = out.raised
                  /\ UNCHANGED <<gameVars, playVars>>
             ELSE IF out.shot \notin Coordinates
             THEN /\ pc' = "crashed"
                  /\ error' = "IndexError"
                  /\ last_shot' = out.shot
                  /\ UNCHANGED <<gameVars, shots_fired_coords, hit_history,
                                 player_view, turns, result>>
             ELSE LET cell == <<ListEntry(out.shot[1]), ListEntry(out.shot[2])>>
                      t == take_shot(heap, solution_grid, hits_made, cell)
                  IN IF player_view[cell] # "UNKNOWN"
                     THEN /\ pc' = "break"
                          /\ turns' = turns + 1
                          /\ last_shot' = out.shot
                          /\ shots_fired_coords' =
                                 [shots_fired_coords EXCEPT ![out.shot] = @ + 1]
                          /\ UNCHANGED <<gameVars, hit_history, player_view,
                                         result, error>>
                     ELSE /\ turns' = turns + 1
                          /\ shots_fired_coords' =
                                 [shots_fired_coords EXCEPT ![out.shot] = @ + 1]
                          /\ heap' = t.heap
                          /\ hits_made' = t.hits_made
                          /\ last_shot' = out.shot
                          /\ result' = t.result
                          /\ player_view' = [player_view EXCEPT ![cell] = t.result]
                          /\ hit_history' =
                                 IF t.result = "HIT"
                                 THEN Append(hit_history, out.shot)
                                 ELSE hit_history
                          /\ pc' = "playing"
                          /\ UNCHANGED <<solution_grid, total_ship_segments, error>>
    /\ UNCHANGED <<paramVars, random_state, statVars, compVars, games_played, place>>

\* _play_single_game: one pass of the while loop.  last_shot is (r, c).
PlayTurn ==
    /\ pc = "playing"
    /\ ~is_game_over
    /\ \E out \in alg_next_shot(algorithm, alg, player_view, hit_history) :
          /\ alg' = out.st
          /\ IF out.raised = "hang"
             THEN /\ pc' = "hung"
                  /\ UNCHANGED <<gameVars, playVars, error>>
             ELSE IF out.raised # "None"
             THEN /\ pc' = "crashed"
                  /\ error' = out.raised
                  /\ UNCHANGED <<gameVars, playVars>>
             ELSE IF out.shot \notin Coordinates
             THEN /\ pc' = "crashed"
                  /\ error' = "IndexError"
                  /\ last_shot' = out.shot
                  /\ UNCHANGED <<gameVars, shots_fired_coords, hit_history,
                                 player_view, turns, result>>
             ELSE LET cell == <<ListEntry(out.shot[1]), ListEntry(out.shot[2])>>
                      t == take_shot(heap, solution_grid, hits_made, cell)
                  IN IF player_view[cell] # "UNKNOWN"
                     THEN /\ pc' = "break"
                          /\ turns' = turns + 1
                          /\ last_shot' = out.shot
                          /\ UNCHANGED <<gameVars, shots_fired_coords,
                                         hit_history, player_view, result, error>>
                     ELSE /\ turns' = turns + 1
                          /\ shots_fired_coords' =
                                 [shots_fired_coords EXCEPT ![out.shot] = @ + 1]
                          /\ heap' = t.heap
                          /\ hits_made' = t.hits_made
                          /\ last_shot' = out.shot
                          /\ result' = t.result
                          /\ player_view' = [player_view EXCEPT ![cell] = t.result]
                          /\ hit_history' =
                                 IF t.result = "HIT"
                                 THEN Append(hit_history, out.shot)
                                 ELSE hit_history
                          /\ pc' = "playing"
                          /\ UNCHANGED <<solution_grid, total_ship_segments, error>>
    /\ UNCHANGED <<paramVars, random_state, statVars, compVars, games_played, place>>

\* _play_single_game returns and run()'s for loop goes on, but for run()'s
\* two accumulators.
EndGame ==
    /\ \/ pc = "playing" /\ is_game_over
       \/ pc = "break"
    /\ games_played' = games_played + 1
    /\ pc' = IF games_played + 1 < NumSimulations THEN "new_game" ELSE "done"
    /\ shots_fired_coords' = NoShots
    /\ hit_history' = <<>>
    /\ player_view' = UnknownView
    /\ turns' = 0
    /\ last_shot' = NoCell
    /\ result' = "None"
    /\ UNCHANGED <<paramVars, random_state, compVars, gameVars, error, alg, place>>

\* The end of a game with shots_per_game and heat_map_grid, which run() only
\* ever writes, left out of the state.
FinishGame == EndGame /\ UNCHANGED statVars

\* The end of a game with the accumulators kept:
\* shots_per_game.append(shot_count); heat_map_grid[r][c] += 1 per shot.
RecordGame ==
    /\ EndGame
    /\ shots_per_game' = Append(shots_per_game, ShotCount)
    /\ heat_map_grid' =
           [cell \in Cells |->
               heat_map_grid[cell]
               + SumOver([shot \in Coordinates |->
                             IF <<ListEntry(shot[1]), ListEntry(shot[2])>> = cell
                             THEN shots_fired_coords[shot] ELSE 0],
                         Coordinates)]

Next == CreateAlgorithm \/ StartGame \/ PlayTurn \/ FinishGame

Spec == Init /\ [][Next]_vars

\* ------------------------------------------ a game built and shot step by step
\* The fleets of the runs explored: one that always fits, two whose later
\* ship can meet an occupied cell, and one longer than the board.
PlaceConfigs ==
    {<<Destroyer>>, <<Destroyer, Buoy>>, <<Cruiser, Destroyer>>, <<Carrier>>}

InitPlace ==
    /\ algorithm = "randomsearch"
    /\ ship_placement_strategy = "random_each_round"
    /\ ship_config \in PlaceConfigs
    /\ heap = HeapOf(<<>>)
    /\ solution_grid = 0
    /\ total_ship_segments = 0
    /\ hits_made = 0
    /\ pc = "construct"
    /\ error = "None"
    /\ games_played = 0
    /\ InitPlay
    /\ alg = alg_init(algorithm, ship_config)
    /\ place = [ship |-> 0, attempts |-> 0]
    /\ shots_per_game = <<>>
    /\ heat_map_grid = [cell \in Cells |-> 0]
    /\ algorithms = <<>>
    /\ game_template = "None"
    /\ random_state = "None"

\* BattleshipGame.__init__ and reset() up to the loop of _place_ships
Reset ==
    /\ pc = "construct"
    /\ heap' = [heap EXCEPT ![0] = EmptyGrid]
    /\ hits_made' = 0
    /\ total_ship_segments' = ShapeSizeSum(ship_config)
    /\ place' = [ship |-> 1, attempts |-> 0]
    /\ pc' = IF Len(ship_config) = 0 THEN "playing" ELSE "placing"
    /\ UNCHANGED <<paramVars, random_state, statVars, compVars, solution_grid, playVars, error, games_played, alg>>

\* _place_ships: one pass of the attempt loop of ship number place.ship
PlaceAttempt ==
    /\ pc = "placing"
    /\ place.attempts < max_placement_attempts
    /\ \E o \in AttemptOutcomes(heap[solution_grid], ship_config[place.ship]) :
          /\ heap' = [heap EXCEPT ![solution_grid] = o.grid]
          /\ CASE o.kind = "raise" ->
                      /\ pc' = "crashed"
                      /\ error' = o.error
                      /\ place' = [place EXCEPT !.attempts = @ + 1]
               [] o.kind = "placed" ->
                      /\ pc' = IF place.ship = Len(ship_config)
                               THEN "playing" ELSE "placing"
                      /\ error' = error
                      /\ place' = [ship |-> place.ship + 1, attempts |-> 0]
               [] o.kind = "retry" ->
                      /\ pc' = "placing"
                      /\ error' = error
                      /\ place' = [place EXCEPT !.attempts = @ + 1]
    /\ UNCHANGED <<paramVars, random_state, statVars, compVars, solution_grid, total_ship_segments, hits_made,
                   playVars, games_played, alg>>

\* _place_ships: the attempt loop ran out, `if not is_placed: raise`
PlaceFail ==
    /\ pc = "placing"
    /\ place.attempts >= max_placement_attempts
    /\ pc' = "crashed"
    /\ error' = "RuntimeError"
    /\ UNCHANGED <<paramVars, random_state, statVars, compVars, gameVars, playVars, games_played, alg, place>>

\* A caller shoots any cell, shot before or not, and notes the answer
TakeShot ==
    /\ pc = "playing"
    /\ \E cell \in Cells :
          LET t == take_shot(heap, solution_grid, hits_made, cell)
          IN /\ heap' = t.heap
             /\ hits_made' = t.hits_made
             /\ last_shot' = cell
             /\ result' = t.result
             /\ player_view' = [player_view EXCEPT ![cell] = t.result]
    /\ UNCHANGED <<paramVars, random_state, statVars, compVars, solution_grid, total_ship_segments,
                   shots_fired_coords, hit_history, turns, pc, error,
                   games_played, alg, place>>

NextPlace == Reset \/ PlaceAttempt \/ PlaceFail \/ TakeShot

SpecPlace == InitPlace /\ [][NextPlace]_vars

\* ------------------------------------------------- documents with a defect
\* A document of one state whose next_shot list has several entries: the
\* neighbours of the last hit are queued when the target queue is empty
\* (yields no coordinate), the target queue is popped, a random shot
\* guarded by on_hit (never true in a next_shot list) is passed over, the
\* hunt queue is popped, and a random shot closes the list.
LayeredDocument ==
    [name |-> "Layered (JSON)",
     initial_state |-> "PLAY",
     queues |-> {"hunt_queue", "target_queue"},
     variables |-> <<>>,
     states |-> [s \in {"PLAY"} |->
         [on_entry |-> <<ActionOn("generate_diagonal_hunt", "hunt_queue")>>,
          next_shot |->
              <<[action |-> "add_adjacent_to_queue", queue |-> "target_queue",
                 variable |-> "",
                 condition |-> [kind |-> "queue_empty", name |-> "target_queue",
                                value |-> 0]],
                ActionOn("pop_from_queue", "target_queue"),
                [action |-> "generate_random_shot", queue |-> "",
                 variable |-> "",
                 condition |-> [kind |-> "on_hit", name |-> "", value |-> 0]],
                ActionOn("pop_from_queue", "hunt_queue"),
                ActionOn("generate_random_shot", "")>>,
          transitions |-> <<>>]]]

\* The documents loaded: the P2M2 document, three copies of it with one
\* defect each (no initial_state key, target_queue not among the queues, a
\* HUNT transition into a state that is not among the states), and the
\* layered document.
Documents ==
    [algo_id \in {"p2m2_json", "no_initial_state", "undeclared_queue",
                  "undeclared_state", "layered"} |->
        CASE algo_id = "p2m2_json" -> P2M2Document
          [] algo_id = "layered" -> LayeredDocument
          [] algo_id = "no_initial_state" ->
                 [k \in DOMAIN P2M2Document \ {"initial_state"} |-> P2M2Document[k]]
          [] algo_id = "undeclared_queue" ->
                 [P2M2Document EXCEPT !.queues = {"hunt_queue"}]
          [] algo_id = "undeclared_state" ->
                 [P2M2Document EXCEPT
                      !.states["HUNT"].transitions[1].next_state = "SINK"]]

InitDoc ==
    /\ algorithm \in DOMAIN Documents
    /\ ship_placement_strategy = "random_each_round"
    /\ ship_config = <<Destroyer>>
    /\ heap = HeapOf(<<>>)
    /\ solution_grid = 0
    /\ total_ship_segments = 0
    /\ hits_made = 0
    /\ pc = "start"
    /\ error = "None"
    /\ games_played = 0
    /\ InitPlay
    /\ alg = GenericAlgorithm_init(Documents[algorithm])
    /\ place = [ship |-> 0, attempts |-> 0]
    /\ shots_per_game = <<>>
    /\ heat_map_grid = [cell \in Cells |-> 0]
    /\ algorithms = <<>>
    /\ game_template = "None"
    /\ random_state = "None"

\* get_json_algorithm_instance: GenericAlgorithm(...), whose __init__ ends
\* with reset(); an exception raised there reaches the caller.
LoadDocument ==
    /\ pc = "start"
    /\ \E o \in GenericAlgorithm_reset_outcomes(alg) :
          /\ alg' = o.st
          /\ pc' = IF o.raised = "None" THEN "new_game" ELSE "rejected"
          /\ error' = o.raised
    /\ UNCHANGED <<paramVars, random_state, statVars, compVars, gameVars, playVars, games_played, place>>

NextDoc == LoadDocument \/ StartGame \/ PlayTurn \/ FinishGame

SpecDoc == InitDoc /\ [][NextDoc]_vars

\* ------------------------------------ a batch of any algorithm, with results
\* run() with its accumulators, played by an implementation of
\* TargetingAlgorithm that may return known squares, on the caller's grid.
InitRun ==
    /\ algorithm = "targetingalgorithm"
    /\ ship_placement_strategy = "fixed_for_all_rounds"
    /\ ship_config = <<Destroyer>>
    /\ heap = HeapOf(<<LayoutA>>)
    /\ solution_grid = 0
    /\ total_ship_segments = 0
    /\ hits_made = 0
    /\ pc = "start"
    /\ error = "None"
    /\ games_played = 0
    /\ InitPlay
    /\ alg = alg_init(algorithm, ship_config)
    /\ place = [ship |-> 0, attempts |-> 0]
    /\ shots_per_game = <<>>
    /\ heat_map_grid = [cell \in Cells |-> 0]
    /\ algorithms = <<>>
    /\ game_template = "None"
    /\ random_state = "None"

NextRun == CreateAlgorithm \/ StartGame \/ PlayTurn \/ RecordGame

SpecRun == InitRun /\ [][NextRun]_vars

\* ------------------------------------------------ a comparison of algorithms
\* run_comparison().  The instance the inner loop has bound to `algorithm`
\* is kept in alg, and its entry in algorithms then reads "alg".
\* params['algorithms'] of the runs explored:
ComparedAlgorithms == <<"randomsearch", "targetingalgorithm">>

\* The reference of the grid object copy.deepcopy() makes for game_instance;
\* the copy of the game before it is garbage by then.
CopyRef == 0 - 1

InitCompare ==
    /\ algorithm = "None"
    /\ ship_config = <<Destroyer>>
    /\ \/ /\ ship_placement_strategy = "random_each_round"
          /\ heap = HeapOf(<<>>) @@ (CopyRef :> EmptyGrid)
       \/ /\ ship_placement_strategy = "fixed_for_all_rounds"
          /\ heap = HeapOf(<<LayoutA>>) @@ (CopyRef :> EmptyGrid)
       \/ /\ ship_placement_strategy = "random_from_set"
          /\ heap = HeapOf(<<LayoutA, LayoutB>>) @@ (CopyRef :> EmptyGrid)
    /\ solution_grid = 0
    /\ total_ship_segments = 0
    /\ hits_made = 0
    /\ pc = "start"
    /\ error = "None"
    /\ games_played = 0
    /\ InitPlay
    /\ alg = "None"
    /\ place = [ship |-> 0, attempts |-> 0]
    /\ shots_per_game = <<>>
    /\ heat_map_grid = [cell \in Cells |-> 0]
    /\ algorithms = <<>>
    /\ game_template = "None"
    /\ random_state = "None"

\* algorithms = {algo_id: get_algorithm_instance(...) for algo_id in ...}
CreateAlgorithms ==
    /\ pc = "start"
    /\ algorithms' \in
           {a \in [DOMAIN ComparedAlgorithms ->
                      [algo_id : SeqToSet(ComparedAlgorithms),
                       instance : UNION {get_algorithm_instance(id, ship_config) :
                                             id \in SeqToSet(ComparedAlgorithms)}]] :
               \A i \in DOMAIN ComparedAlgorithms :
                   /\ a[i].algo_id = ComparedAlgorithms[i]
                   /\ a[i].instance \in
                          get_algorithm_instance(ComparedAlgorithms[i], ship_config)}
    /\ pc' = "new_round"
    /\ UNCHANGED <<paramVars, random_state, statVars, gameVars, playVars, error,
                   games_played, alg, place, game_template>>

\* One pass of the outer loop up to the inner loop:
\* game_template = PlacementStrategy.get_game_instance(...)
StartRound ==
    /\ pc = "new_round"
    /\ games_played < NumSimulations
    /\ \E g \in get_game_instance(ship_placement_strategy, heap, ship_config) :
          IF g.error # "None"
          THEN /\ pc' = "crashed"
               /\ error' = g.error
               /\ UNCHANGED <<heap, game_template, algorithm>>
          ELSE /\ heap' = g.heap
               /\ game_template' = [solution_grid |-> g.solution_grid,
                                    total_ship_segments |-> g.total_ship_segments,
                                    hits_made |-> g.hits_made]
               /\ algorithm' = "None"
               /\ pc' = "next_algorithm"
               /\ error' = error
    /\ UNCHANGED <<ship_placement_strategy, ship_config, random_state, statVars, solution_grid,
                   total_ship_segments, hits_made, playVars, games_played, alg,
                   place, algorithms>>

\* The position in algorithms.items() of the entry after the one of algo_id
NextItem(algo_id) ==
    IF algo_id = "None" THEN 1
    ELSE 1 + CHOOSE i \in DOMAIN algorithms : algorithms[i].algo_id = algo_id

\* One pass of the inner loop up to the call of _play_single_game, with
\* game_instance a shallow copy: its solution_grid is the template's object.
StartComparisonGame_shallow_copy ==
    /\ pc = "next_algorithm"
    /\ NextItem(algorithm) <= Len(algorithms)
    /\ algorithm' = algorithms[NextItem(algorithm)].algo_id
    /\ alg' \in alg_reset(algorithm', algorithms[NextItem(algorithm)].instance)
    /\ heap' = heap
    /\ solution_grid' = game_template.solution_grid
    /\ total_ship_segments' = game_template.total_ship_segments
    /\ hits_made' = game_template.hits_made
    /\ shots_fired_coords' = NoShots
    /\ hit_history' = <<>>
    /\ player_view' = UnknownView
    /\ turns' = 0
    /\ last_shot' = NoCell
    /\ result' = "None"
    /\ pc' = "playing"
    /\ algorithms' = [algorithms EXCEPT ![NextItem(algorithm)].instance = "alg"]
    /\ UNCHANGED <<ship_placement_strategy, ship_config, random_state, statVars,
                   game_template, error, games_played, place>>

\* One pass of the inner loop up to the call of _play_single_game:
\* game_instance = copy.deepcopy(game_template); algorithm.reset(); and
\* _play_single_game's locals.
StartComparisonGame ==
    /\ pc = "next_algorithm"
    /\ NextItem(algorithm) <= Len(algorithms)
    /\ algorithm' = algorithms[NextItem(algorithm)].algo_id
    /\ alg' \in alg_reset(algorithm', algorithms[NextItem(algorithm)].instance)
    /\ heap' = [heap EXCEPT ![CopyRef] = heap[game_template.solution_grid]]
    /\ solution_grid' = CopyRef
    /\ total_ship_segments' = game_template.total_ship_segments
    /\ hits_made' = game_template.hits_made
    /\ shots_fired_coords' = NoShots
    /\ hit_history' = <<>>
    /\ player_view' = UnknownView
    /\ turns' = 0
    /\ last_shot' = NoCell
    /\ result' = "None"
    /\ pc' = "playing"
    /\ algorithms' = [algorithms EXCEPT ![NextItem(algorithm)].instance = "alg"]
    /\ UNCHANGED <<ship_placement_strategy, ship_config, random_state, statVars,
                   game_template, error, games_played, place>>

\* _play_single_game returns; the instance is kept in algorithms; the inner
\* loop goes on, or ends and with it the pass of the outer loop.  The
\* results of run_comparison() are only ever written and are left out of
\* the state.
EndComparisonGame ==
    /\ \/ pc = "playing" /\ is_game_over
       \/ pc = "break"
    /\ algorithms' = [algorithms EXCEPT ![NextItem(algorithm) - 1].instance = alg]
    /\ IF NextItem(algorithm) <= Len(algorithms)
       THEN /\ pc' = "next_algorithm"
            /\ games_played' = games_played
       ELSE /\ pc' = IF games_played + 1 < NumSimulations
                     THEN "new_round" ELSE "done"
            /\ games_played' = games_played + 1
    /\ shots_fired_coords' = NoShots
    /\ hit_history' = <<>>
    /\ player_view' = UnknownView
    /\ turns' = 0
    /\ last_shot' = NoCell
    /\ result' = "None"
    /\ UNCHANGED <<paramVars, random_state, statVars, gameVars, error, alg, place,
                   game_template>>

NextCompare ==
    \/ CreateAlgorithms
    \/ StartRound
    \/ StartComparisonGame
    \/ PlayTurn
    \/ EndComparisonGame

SpecCompare == InitCompare /\ [][NextCompare]_vars

\* ------------------------------------------------ a comparison under a seed
\* random.seed(n), then run_comparison() on a fixed grid.  Every function of
\* module random that the code calls draws from the one generator of that
\* module, and the generator's output is a function of the seed and of the
\* number of draws made since.
MaxSeed == 7

\* The output after n draws of the generator seeded with seed; a linear
\* congruential sequence with a prime modulus stands for the library's
\* generator.
RECURSIVE random_output(_, _)
random_output(seed, n) ==
    IF n = 0 THEN seed ELSE (5 * random_output(seed, n - 1) + 3) % 17

\* random.choice(seq): one draw
random_choice(seq, state) ==
    [item |-> seq[(random_output(state.seed, state.draws) % Len(seq)) + 1],
     state |-> [state EXCEPT !.draws = @ + 1]]

\* random.shuffle(x) draws once for every position but the first; the order
\* it leaves is left open here.
random_shuffle(len, state) == [state EXCEPT !.draws = @ + (len - 1)]

\* edge_squares of P2M2STDirectional.reset(), in the list's order
edge_squares ==
    SelectSeq([i \in 1 .. (BoardSize * BoardSize) |->
                  <<(i - 1) \div BoardSize, (i - 1) % BoardSize>>],
              LAMBDA cell : \/ cell[1] = 0 \/ cell[1] = BoardSize - 1
                            \/ cell[2] = 0 \/ cell[2] = BoardSize - 1)

\* params['fixed_placements'] of the runs explored: the fleet of ship_config
\* and nothing else, so that every game ends on the hunt queue and the
\* targeting candidates, before any fallback draws.
DestroyerGrid == GridOf((<<0, 0>> :> "Destroyer") @@ (<<0, 1>> :> "Destroyer"))

\* params['algorithms'] of the runs explored
SeededAlgorithms == <<"p2m2stdirectional", "randomsearch">>

\* reset() of the algorithms compared, with the generator it leaves behind:
\* P2M2STDirectional draws start_pos, the head of its hunt queue;
\* RandomSearch shuffles the list of all cells.
alg_reset_seeded(algo_id, st, state) ==
    IF algo_id = "p2m2stdirectional"
    THEN LET drawn == random_choice(edge_squares, state)
         IN {[st |-> x, state |-> drawn.state] :
                 x \in {y \in P2M2STDirectional_reset(st) :
                            y.hunt_targets[1] = drawn.item}}
    ELSE {[st |-> x, state |-> random_shuffle(BoardSize * BoardSize, state)] :
              x \in RandomSearch_reset(st)}

InitSeed ==
    /\ algorithm = "None"
    /\ ship_config = <<Destroyer>>
    /\ ship_placement_strategy = "fixed_for_all_rounds"
    /\ heap = HeapOf(<<DestroyerGrid>>) @@ (CopyRef :> EmptyGrid)
    /\ solution_grid = 0
    /\ total_ship_segments = 0
    /\ hits_made = 0
    /\ pc = "start"
    /\ error = "None"
    /\ games_played = 0
    /\ InitPlay
    /\ alg = "None"
    /\ place = [ship |-> 0, attempts |-> 0]
    /\ shots_per_game = <<>>
    /\ heat_map_grid = [cell \in Cells |-> 0]
    /\ algorithms = <<>>
    /\ game_template = "None"
    /\ random_state \in [seed : 0 .. MaxSeed, draws : {0}]

\* algorithms = {algo_id: get_algorithm_instance(...) for algo_id in ...}:
\* the constructors run in the order of the list, each ending with reset()
CreateSeededAlgorithms ==
    /\ pc = "start"
    /\ \E first \in alg_reset_seeded(SeededAlgorithms[1],
                     alg_init(SeededAlgorithms[1], ship_config), random_state) :
          \E second \in alg_reset_seeded(SeededAlgorithms[2],
                     alg_init(SeededAlgorithms[2], ship_config), first.state) :
             /\ algorithms' = <<[algo_id |-> SeededAlgorithms[1], instance |-> first.st],
                                [algo_id |-> SeededAlgorithms[2], instance |-> second.st]>>
             /\ random_state' = second.state
    /\ pc' = "new_round"
    /\ UNCHANGED <<paramVars, statVars, gameVars, playVars, error,
                   games_played, alg, place, game_template>>

\* One pass of the inner loop up to the call of _play_single_game:
\* game_instance = copy.deepcopy(game_template); algorithm.reset(); and
\* _play_single_game's locals.
StartSeededGame ==
    /\ pc = "next_algorithm"
    /\ NextItem(algorithm) <= Len(algorithms)
    /\ algorithm' = algorithms[NextItem(algorithm)].algo_id
    /\ \E out \in alg_reset_seeded(algorithm',
                     algorithms[NextItem(algorithm)].instance, random_state) :
          /\ alg' = out.st
          /\ random_state' = out.state
    /\ heap' = [heap EXCEPT ![CopyRef] = heap[game_template.solution_grid]]
    /\ solution_grid' = CopyRef
    /\ total_ship_segments' = game_template.total_ship_segments
    /\ hits_made' = game_template.hits_made
    /\ shots_fired_coords' = NoShots
    /\ hit_history' = <<>>
    /\ player_view' = UnknownView
    /\ turns' = 0
    /\ last_shot' = NoCell
    /\ result' = "None"
    /\ pc' = "playing"
    /\ algorithms' = [algorithms EXCEPT ![NextItem(algorithm)].instance = "alg"]
    /\ UNCHANGED <<ship_placement_strategy, ship_config, statVars,
                   game_template, error, games_played, place>>

NextSeed ==
    \/ CreateSeededAlgorithms
    \/ StartRound
    \/ StartSeededGame
    \/ PlayTurn
    \/ EndComparisonGame

SpecSeed == InitSeed /\ [][NextSeed]_vars

\* ------------------------------------------ the interpreter under any caller
\* next_shot of the interpreter called with any view and hit history a
\* caller may pass: each shot is answered HIT or MISS, and with a MISS the
\* caller may report a hit on another square in the same turn.
MaxCalls == 4

\* A document whose states tell the result of the turn: every state goes to
\* SAW_MISS on on_miss and to SAW_HIT on on_hit, and entering either counts.
OutcomeDocument ==
    LET Count(v) == [action |-> "increment_variable", queue |-> "",
                     variable |-> v, condition |-> NoCondition]
        Transitions ==
            <<[condition |-> [kind |-> "on_miss", name |-> "", value |-> 0],
               next_state |-> "SAW_MISS"],
              [condition |-> [kind |-> "on_hit", name |-> "", value |-> 0],
               next_state |-> "SAW_HIT"]>>
    IN [name |-> "Outcome (JSON)",
        initial_state |-> "WAIT",
        queues |-> {"hunt_queue"},
        variables |-> [v \in {"hits_seen", "misses_seen"} |-> 0],
        states |-> [s \in {"WAIT", "SAW_MISS", "SAW_HIT"} |->
            [on_entry |->
                 CASE s = "WAIT" ->
                          <<ActionOn("generate_diagonal_hunt", "hunt_queue")>>
                   [] s = "SAW_MISS" -> <<Count("misses_seen")>>
                   [] s = "SAW_HIT" -> <<Count("hits_seen")>>,
             next_shot |-> <<ActionOn("pop_from_queue", "hunt_queue"),
                             ActionOn("generate_random_shot", "")>>,
             transitions |-> Transitions]]]

InitInterpreter ==
    /\ algorithm = "outcome"
    /\ ship_placement_strategy = "random_each_round"
    /\ ship_config = <<Destroyer>>
    /\ heap = HeapOf(<<>>)
    /\ solution_grid = 0
    /\ total_ship_segments = 0
    /\ hits_made = 0
    /\ pc = "playing"
    /\ error = "None"
    /\ games_played = 0
    /\ InitPlay
    /\ alg \in GenericAlgorithm_reset(GenericAlgorithm_init(OutcomeDocument))
    /\ place = [ship |-> 0, attempts |-> 0]
    /\ shots_per_game = <<>>
    /\ heat_map_grid = [cell \in Cells |-> 0]
    /\ algorithms = <<>>
    /\ game_template = "None"
    /\ random_state = "None"

\* shot = algorithm.next_shot(view, hit_history), then the caller's answer
CallInterpreter ==
    /\ pc = "playing"
    /\ turns < MaxCalls
    /\ \E out \in GenericAlgorithm_next_shot(alg, player_view, hit_history) :
          /\ alg' = out.st
          /\ IF out.raised # "None"
             THEN /\ pc' = IF out.raised = "hang" THEN "hung" ELSE "crashed"
                  /\ error' = out.raised
                  /\ UNCHANGED playVars
             ELSE IF player_view[out.shot] # "UNKNOWN"
             THEN /\ pc' = "break"
                  /\ turns' = turns + 1
                  /\ last_shot' = out.shot
                  /\ UNCHANGED <<shots_fired_coords, hit_history, player_view,
                                 result, error>>
             ELSE \E answer \in {"HIT", "MISS"} :
                  \E other \in {NoCell} \cup
                               (IF answer = "MISS"
                                THEN UnknownCells(player_view) \ {out.shot}
                                ELSE {}) :
                      /\ turns' = turns + 1
                      /\ shots_fired_coords' =
                             [shots_fired_coords EXCEPT ![out.shot] = @ + 1]
                      /\ last_shot' = out.shot
                      /\ result' = answer
                      /\ player_view' =
                             [cell \in Cells |->
                                 IF cell = out.shot THEN answer
                                 ELSE IF cell = other THEN "HIT"
                                 ELSE player_view[cell]]
                      /\ hit_history' =
                             IF answer = "HIT" THEN Append(hit_history, out.shot)
                             ELSE IF other # NoCell THEN Append(hit_history, other)
                             ELSE hit_history
                      /\ pc' = "playing"
                      /\ error' = error
    /\ UNCHANGED <<paramVars, random_state, statVars, compVars, gameVars, games_played, place>>

SpecInterpreter == InitInterpreter /\ [][CallInterpreter]_vars

\* ------------------------------------------- next_shot against any board
\* The calls of next_shot of one game on a board of which only the number
\* of ship cells is fixed beforehand, the one of the fleet: a shot is
\* answered HIT or MISS, and calls are made while fewer cells are hit.
InitCalls ==
    /\ algorithm \in Algorithms
    /\ ship_placement_strategy = "fixed_for_all_rounds"
    /\ ship_config = <<Cruiser, Buoy>>
    /\ heap = HeapOf(<<>>)
    /\ solution_grid = 0
    /\ total_ship_segments = 0
    /\ hits_made = 0
    /\ pc = "playing"
    /\ error = "None"
    /\ games_played = 0
    /\ InitPlay
    /\ alg \in get_algorithm_instance(algorithm, ship_config)
    /\ place = [ship |-> 0, attempts |-> 0]
    /\ shots_per_game = <<>>
    /\ heat_map_grid = [cell \in Cells |-> 0]
    /\ algorithms = <<>>
    /\ game_template = "None"
    /\ random_state = "None"

\* One pass of _play_single_game's loop, take_shot's answer being any
CallNextShot ==
    /\ pc = "playing"
    /\ Len(hit_history) < ShapeSizeSum(ship_config)
    /\ \E out \in alg_next_shot(algorithm, alg, player_view, hit_history) :
          /\ alg' = out.st
          /\ IF out.raised # "None"
             THEN /\ pc' = IF out.raised = "hang" THEN "hung" ELSE "crashed"
                  /\ error' = out.raised
                  /\ UNCHANGED playVars
             ELSE IF out.shot \notin Cells \/ player_view[out.shot] # "UNKNOWN"
             THEN /\ pc' = "break"
                  /\ turns' = turns + 1
                  /\ last_shot' = out.shot
                  /\ UNCHANGED <<shots_fired_coords, hit_history, player_view,
                                 result, error>>
             ELSE \E answer \in {"HIT", "MISS"} :
                  \* a MISS leaves squares enough for the cells not yet hit
                  /\ answer = "MISS"
                         => Cardinality({cell \in Cells :
                                            player_view[cell] = "UNKNOWN"}) - 1
                            >= ShapeSizeSum(ship_config) - Len(hit_history)
                  /\ turns' = turns + 1
                  /\ shots_fired_coords' =
                         [shots_fired_coords EXCEPT ![out.shot] = @ + 1]
                  /\ last_shot' = out.shot
                  /\ result' = answer
                  /\ player_view' = [player_view EXCEPT ![out.shot] = answer]
                  /\ hit_history' = IF answer = "HIT"
                                    THEN Append(hit_history, out.shot)
                                    ELSE hit_history
                  /\ pc' = "playing"
                  /\ error' = error
    /\ UNCHANGED <<paramVars, random_state, statVars, compVars, gameVars, games_played, place>>

SpecCalls == InitCalls /\ [][CallNextShot]_vars

\* ------------------------------------------- games on a caller's fleet grid
\* run() on a grid the caller fixes for all rounds, as run_single_simulation
\* does, played by the two algorithms that count the ships they found.  The
\* grid and ship_config are separate parameters of the caller.
BuoyGrid ==
    GridOf((<<0, 0>> :> "Single-Cell Buoy") @@ (<<2, 1>> :> "Single-Cell Buoy"))

DestroyerBuoyGrid ==
    GridOf((<<0, 0>> :> "Destroyer") @@ (<<0, 1>> :> "Destroyer")
           @@ (<<2, 2>> :> "Single-Cell Buoy"))

CruiserBuoyGrid ==
    GridOf((<<0, 0>> :> "Cruiser") @@ (<<0, 1>> :> "Cruiser")
           @@ (<<0, 2>> :> "Cruiser") @@ (<<2, 1>> :> "Single-Cell Buoy"))

FleetGrids == {BuoyGrid, DestroyerBuoyGrid, CruiserBuoyGrid}

FleetConfigs ==
    {<<Buoy, Buoy>>, <<Destroyer, Buoy>>, <<Cruiser, Buoy>>,
     <<Destroyer, Cruiser>>, <<Buoy, Buoy, Buoy, Buoy>>}

InitFleet ==
    /\ algorithm \in {"p2m2stdirectional", "p2m2optimized"}
    /\ ship_placement_strategy = "fixed_for_all_rounds"
    /\ ship_config \in FleetConfigs
    /\ \E grid \in FleetGrids : heap = HeapOf(<<grid>>)
    /\ solution_grid = 0
    /\ total_ship_segments = 0
    /\ hits_made = 0
    /\ pc = "start"
    /\ error = "None"
    /\ games_played = 0
    /\ InitPlay
    /\ alg = alg_init(algorithm, ship_config)
    /\ place = [ship |-> 0, attempts |-> 0]
    /\ shots_per_game = <<>>
    /\ heat_map_grid = [cell \in Cells |-> 0]
    /\ algorithms = <<>>
    /\ game_template = "None"
    /\ random_state = "None"

SpecFleet == InitFleet /\ [][Next]_vars

\* ---- run_comparison() with its results kept
\* results = {algo_id: {"shots_per_game": [], "heat_map": [[0] * n ...]}}:
\* shots_per_game[algo_id] and heat_map_grid[algo_id] are the two entries.
\* the state after results and algorithms are built (both dictionaries keyed
\* by params['algorithms'], here ComparedResults)
ComparedResults == <<"p2m2stdirectional", "targetingalgorithm">>

InitCompareResults ==
    /\ algorithm = "None"
    /\ ship_config = <<Destroyer>>
    /\ ship_placement_strategy = "fixed_for_all_rounds"
    /\ heap = HeapOf(<<DestroyerGrid>>) @@ (CopyRef :> EmptyGrid)
    /\ solution_grid = 0
    /\ total_ship_segments = 0
    /\ hits_made = 0
    /\ pc = "new_round"
    /\ error = "None"
    /\ games_played = 0
    /\ InitPlay
    /\ alg = "None"
    /\ place = [ship |-> 0, attempts |-> 0]
    /\ shots_per_game = [algo_id \in SeqToSet(ComparedResults) |-> <<>>]
    /\ heat_map_grid = [algo_id \in SeqToSet(ComparedResults) |->
                           [cell \in Cells |-> 0]]
    /\ \E first \in get_algorithm_instance(ComparedResults[1], ship_config) :
       \E second \in get_algorithm_instance(ComparedResults[2], ship_config) :
           algorithms = <<[algo_id |-> ComparedResults[1], instance |-> first],
                          [algo_id |-> ComparedResults[2], instance |-> second]>>
    /\ game_template = "None"
    /\ random_state = "None"

\* Variant in which every algorithm's "heat_map" is one and the same grid.
RecordComparisonGame_one_heat_map ==
    /\ \/ pc = "playing" /\ is_game_over
       \/ pc = "break"
    /\ algorithms' = [algorithms EXCEPT ![NextItem(algorithm) - 1].instance = alg]
    /\ shots_per_game' = [shots_per_game EXCEPT ![algorithm] = Append(@, ShotCount)]
    /\ heat_map_grid' =
           [algo_id \in DOMAIN heat_map_grid |->
               [cell \in Cells |->
                   heat_map_grid[algo_id][cell]
                   + SumOver([shot \in Coordinates |->
                                 IF <<ListEntry(shot[1]), ListEntry(shot[2])>> = cell
                                 THEN shots_fired_coords[shot] ELSE 0],
                             Coordinates)]]
    /\ IF NextItem(algorithm) <= Len(algorithms)
       THEN /\ pc' = "next_algorithm"
            /\ games_played' = games_played
       ELSE /\ pc' = IF games_played + 1 < NumSimulations
                     THEN "new_round" ELSE "done"
            /\ games_played' = games_played + 1
    /\ shots_fired_coords' = NoShots
    /\ hit_history' = <<>>
    /\ player_view' = UnknownView
    /\ turns' = 0
    /\ last_shot' = NoCell
    /\ result' = "None"
    /\ UNCHANGED <<paramVars, random_state, gameVars, error, alg, place,
                   game_template>>

\* _play_single_game returns; results[algo_id]["shots_per_game"].append(
\* shot_count); results[algo_id]["heat_map"][r][c] += 1 per shot; the inner
\* loop goes on, or ends and with it the pass of the outer loop.
RecordComparisonGame ==
    /\ \/ pc = "playing" /\ is_game_over
       \/ pc = "break"
    /\ algorithms' = [algorithms EXCEPT ![NextItem(algorithm) - 1].instance = alg]
    /\ shots_per_game' = [shots_per_game EXCEPT ![algorithm] = Append(@, ShotCount)]
    /\ heat_map_grid' =
           [heat_map_grid EXCEPT ![algorithm] =
               [cell \in Cells |->
                   @[cell]
                   + SumOver([shot \in Coordinates |->
                                 IF <<ListEntry(shot[1]), ListEntry(shot[2])>> = cell
                                 THEN shots_fired_coords[shot] ELSE 0],
                             Coordinates)]]
    /\ IF NextItem(algorithm) <= Len(algorithms)
       THEN /\ pc' = "next_algorithm"
            /\ games_played' = games_played
       ELSE /\ pc' = IF games_played + 1 < NumSimulations
                     THEN "new_round" ELSE "done"
            /\ games_played' = games_played + 1
    /\ shots_fired_coords' = NoShots
    /\ hit_history' = <<>>
    /\ player_view' = UnknownView
    /\ turns' = 0
    /\ last_shot' = NoCell
    /\ result' = "None"
    /\ UNCHANGED <<paramVars, random_state, gameVars, error, alg, place,
                   game_template>>

NextCompareResults ==
    \/ StartRound
    \/ StartComparisonGame
    \/ PlayTurn
    \/ RecordComparisonGame

SpecCompareResults == InitCompareResults /\ [][NextCompareResults]_vars

\* ---- two interpreter instances built from one registry document
\* get_json_algorithm_instance hands every instance the registry's own dictionary:
\* heap[DocumentRef] is that dictionary and self.config of both instances
\* refers to it. alg is the instance that is called, algorithms[1] the other.
DocumentRef == 1

RegistryDocument ==
    IF algorithm = "outcome" THEN OutcomeDocument
    ELSE JSON_ALGORITHM_REGISTRY[algorithm]

\* an instance as its methods see it: self.config read through the reference
Deref(instance) == [instance EXCEPT !.config = heap[DocumentRef]]

InitShared ==
    /\ algorithm \in {"outcome", "p2m2_json"}
    /\ ship_placement_strategy = "random_each_round"
    /\ ship_config = <<Destroyer>>
    /\ heap = (0 :> EmptyGrid) @@ (DocumentRef :> RegistryDocument)
    /\ solution_grid = 0
    /\ total_ship_segments = 0
    /\ hits_made = 0
    /\ pc = "playing"
    /\ error = "None"
    /\ games_played = 0
    /\ InitPlay
    /\ alg \in GenericAlgorithm_reset(GenericAlgorithm_init(RegistryDocument))
    /\ \E other \in GenericAlgorithm_reset(GenericAlgorithm_init(RegistryDocument)) :
           algorithms = <<[algo_id |-> algorithm, instance |-> other]>>
    /\ place = [ship |-> 0, attempts |-> 0]
    /\ shots_per_game = <<>>
    /\ heat_map_grid = [cell \in Cells |-> 0]
    /\ game_template = "None"
    /\ random_state = "None"

\* next_shot on the first instance, then the caller's answer
CallShared ==
    /\ pc = "playing"
    /\ turns < MaxCalls
    /\ \E out \in GenericAlgorithm_next_shot(Deref(alg), player_view, hit_history) :
          /\ alg' = out.st
          /\ heap' = [heap EXCEPT ![DocumentRef] = out.st.config]
          /\ IF out.raised # "None"
             THEN /\ pc' = IF out.raised = "hang" THEN "hung" ELSE "crashed"
                  /\ error' = out.raised
                  /\ UNCHANGED playVars
             ELSE IF player_view[out.shot] # "UNKNOWN"
             THEN /\ pc' = "break"
                  /\ turns' = turns + 1
                  /\ last_shot' = out.shot
                  /\ UNCHANGED <<shots_fired_coords, hit_history, player_view,
                                 result, error>>
             ELSE \E answer \in {"HIT", "MISS"} :
                      /\ turns' = turns + 1
                      /\ shots_fired_coords' =
                             [shots_fired_coords EXCEPT ![out.shot] = @ + 1]
                      /\ last_shot' = out.shot
                      /\ result' = answer
                      /\ player_view' = [player_view EXCEPT ![out.shot] = answer]
                      /\ hit_history' =
                             IF answer = "HIT" THEN Append(hit_history, out.shot)
                             ELSE hit_history
                      /\ pc' = "playing"
                      /\ error' = error
    /\ UNCHANGED <<paramVars, random_state, statVars, compVars, solution_grid,
                   total_ship_segments, hits_made, games_played, place>>

\* reset() on the first instance before another game
ResetShared ==
    /\ pc \in {"playing", "break"}
    /\ turns > 0
    /\ games_played < NumSimulations
    /\ \E out \in GenericAlgorithm_reset_outcomes(Deref(alg)) :
          /\ alg' = out.st
          /\ heap' = [heap EXCEPT ![DocumentRef] = out.st.config]
          /\ pc' = IF out.raised = "None" THEN "playing" ELSE "crashed"
          /\ error' = out.raised
    /\ games_played' = games_played + 1
    /\ shots_fired_coords' = NoShots
    /\ hit_history' = <<>>
    /\ player_view' = UnknownView
    /\ turns' = 0
    /\ last_shot' = NoCell
    /\ result' = "None"
    /\ UNCHANGED <<paramVars, random_state, statVars, compVars, solution_grid,
                   total_ship_segments, hits_made, place>>

NextShared == CallShared \/ ResetShared

SpecShared == InitShared /\ [][NextShared]_vars

\* ------------------------------------------------------------- properties
\* C1: every coordinate a next_shot call returns to the game loop is on the
\* board and was not returned before in the game, so the list of fired
\* coordinates has no duplicates and is as long as the number of turns taken
\* (the loop never breaks on an already known square).
C1_NoDuplicateShots ==
    /\ last_shot \in Cells \cup {NoCell}
    /\ FiredCells \subseteq Cells
    /\ \A cell \in Coordinates : shots_fired_coords[cell] <= 1
    /\ ShotCount = turns
    /\ pc # "break"

C1_Witness ==
    /\ pc = "playing"
    /\ algorithm = "p2m2_json"
    /\ turns >= 4
    /\ hit_history # <<>>
    /\ alg.current_state = "TARGET"

\* C2: on the fixed board, the first game played by RandomSearch, by
\* HuntAndTarget and by P2M2Enhanced never stops on an exception, an endless
\* loop or a break, takes at most BoardSize * BoardSize shots, and is over
\* with every ship cell fired at exactly once.
C2_FixedBoardGameCompletes ==
    (/\ ship_placement_strategy = "fixed_for_all_rounds"
     /\ games_played = 0
     /\ algorithm \in {"randomsearch", "huntandtarget", "p2m2enhanced"})
    => /\ pc \notin {"crashed", "hung", "break"}
       /\ ShotCount <= BoardSize * BoardSize
       /\ (pc = "playing" /\ is_game_over)
              => \A cell \in ShipCells(LayoutA) : shots_fired_coords[cell] = 1

\* C3: every game get_game_instance returns starts with no cell shot:
\* hits_made is 0 and no cell of its grid is marked HIT, whatever was shot
\* on the boards of earlier games.
C3_FreshBoardEachGame ==
    (pc = "playing" /\ turns = 0)
    => /\ hits_made = 0
       /\ \A cell \in Cells : heap[solution_grid][cell] # "HIT"

\* C4: during a game hits_made is the number of distinct ship cells shot so
\* far, and the shot just taken answered HIT exactly when it was at a ship
\* cell.
C4_HitsMadeCountsShipCellsShot ==
    pc = "playing"
    => /\ hits_made =
              Cardinality({cell \in Cells : /\ heap[solution_grid][cell] # "None"
                                            /\ player_view[cell] # "UNKNOWN"})
       /\ \A cell \in Cells :
              player_view[cell] = "HIT" <=>
                  (player_view[cell] # "UNKNOWN"
                   /\ heap[solution_grid][cell] # "None")

\* C5: a turn of the game loop (one take_shot) leaves the solution grid as
\* it was.
C5_SolutionGridWriteOnce ==
    [][(pc = "playing" /\ pc' = "playing")
           => heap'[solution_grid] = heap[solution_grid]]_vars

\* C6: once random placement has succeeded, every ship of the fleet
\* occupies as many cells as its shape has (so the ships are on the board
\* and disjoint), the number of ship cells is total_ship_segments and the sum
\* of the shape sizes, and whatever cells are then shot, repeats included,
\* the game is over exactly when every ship cell has been shot.
C6_PlacementAndGameOverExact ==
    pc = "playing"
    => /\ Cardinality(ShipCells(heap[solution_grid])) = total_ship_segments
       /\ total_ship_segments = ShapeSizeSum(ship_config)
       /\ player_view = UnknownView
              => \A i \in DOMAIN ship_config :
                     Cardinality({cell \in Cells :
                         heap[solution_grid][cell] = ship_config[i].name})
                     = Len(ship_config[i].shape)
       /\ is_game_over <=>
              \A cell \in ShipCells(heap[solution_grid]) :
                  player_view[cell] # "UNKNOWN"

C6_Witness ==
    /\ pc = "playing"
    /\ Len(ship_config) = 2
    /\ is_game_over
    /\ \E cell \in Cells : player_view[cell] = "MISS"
    /\ hits_made = 5

\* C7: under the fixed and the random-from-set policies total_ship_segments
\* is the number of ship cells of the supplied grid, and the game is over
\* exactly when all of them have been hit.
C7_SuppliedGridDecidesGameOver ==
    (ship_placement_strategy # "random_each_round" /\ pc = "playing")
    => /\ total_ship_segments = Cardinality(ShipCells(heap[solution_grid]))
       /\ is_game_over <=>
              \A cell \in ShipCells(heap[solution_grid]) :
                  player_view[cell] = "HIT"

\* C8: a ship gets at most max_placement_attempts attempts, a placement that
\* fails ends in RuntimeError, and a board that is played on holds every
\* ship of the fleet.
C8_PlacementFailsWithRuntimeError ==
    /\ place.attempts <= max_placement_attempts
    /\ pc = "crashed" => error = "RuntimeError"
    /\ pc = "playing"
           => Cardinality(ShipCells(heap[solution_grid])) = ShapeSizeSum(ship_config)

\* C9: the state reset() leaves at the start of a game, after the games
\* played before it, is one a newly constructed instance can be in.
C9_ResetIsFresh ==
    (pc = "playing" /\ turns = 0)
    => alg \in get_algorithm_instance(algorithm, ship_config)

C9_Witness ==
    /\ pc = "playing"
    /\ turns = 0
    /\ games_played = 1
    /\ algorithm = "p2m2enhanced"

\* C10: while no hit has been made in the game, a parity-hunting strategy
\* has fired only cells of its hunt parity, unless every cell of that parity
\* has been fired.
HuntKeepsParity(parity) ==
    \/ FiredCells \subseteq ParityCells(parity)
    \/ ParityCells(parity) \subseteq FiredCells

C10_HuntStaysOnChosenParity ==
    (pc = "playing" /\ hit_history = <<>>)
    => CASE algorithm = "huntandtarget" -> HuntKeepsParity(0)
         [] algorithm = "p2m2enhanced" -> HuntKeepsParity(alg.chosen_parity)
         [] algorithm = "p2m2optimized" -> HuntKeepsParity(0)
         [] algorithm = "smarttarget" ->
                \A cell \in alg.hunt_targets.front : HuntKeepsParity(Parity(cell))
         [] algorithm = "p2m2stdirectional" ->
                \A i \in DOMAIN alg.hunt_targets :
                    HuntKeepsParity(Parity(alg.hunt_targets[i]))
         [] OTHER -> TRUE

\* C11: in a game played by the P2M2 document, a turn that starts in HUNT
\* with a hit not yet seen ends in TARGET with ships_found_count one higher;
\* a turn that starts in HUNT without one stays in HUNT with the count as it
\* was; a turn that starts in TARGET, new hits or not, leaves the count as
\* it was.
C11_HuntTransitionFiresOnce ==
    [][(/\ algorithm = "p2m2_json"
        /\ pc = "playing"
        /\ pc' \in {"playing", "break", "hung"})
           => LET new_hit == SeqToSet(hit_history) \ alg.active_hits # {}
                  count == alg.variables["ships_found_count"]
                  count_after == alg'.variables["ships_found_count"]
              IN /\ (alg.current_state = "HUNT" /\ new_hit)
                        => /\ alg'.current_state = "TARGET"
                           /\ count_after = count + 1
                 /\ (alg.current_state = "HUNT" /\ ~new_hit)
                        => /\ alg'.current_state = "HUNT"
                           /\ count_after = count
                 /\ alg.current_state = "TARGET" => count_after = count]_vars

C11_Witness ==
    /\ algorithm = "p2m2_json"
    /\ pc = "playing"
    /\ alg.current_state = "TARGET"
    /\ alg.variables["ships_found_count"] = 1
    /\ Cardinality(alg.active_hits) >= 2


\* C12: a document with a defect (no initial_state; an action, condition or
\* transition naming a queue or a state the document does not declare) is
\* rejected when the instance is constructed, so no next_shot call ever
\* raises KeyError or runs in a state the document does not have.
WellFormed(doc) ==
    LET ActionsOk(actions) ==
            \A i \in DOMAIN actions :
                /\ actions[i].queue \in doc.queues \cup {""}
                /\ actions[i].condition.kind = "queue_empty"
                       => actions[i].condition.name \in doc.queues
    IN /\ "initial_state" \in DOMAIN doc
       /\ doc.initial_state \in DOMAIN doc.states
       /\ \A s \in DOMAIN doc.states :
              /\ ActionsOk(doc.states[s].on_entry)
              /\ ActionsOk(doc.states[s].next_shot)
              /\ \A i \in DOMAIN doc.states[s].transitions :
                     LET t == doc.states[s].transitions[i]
                     IN /\ t.next_state \in DOMAIN doc.states
                        /\ t.condition.kind = "queue_empty"
                               => t.condition.name \in doc.queues

C12_MalformedRejectedAtLoad ==
    pc # "start"
    => /\ ~WellFormed(Documents[algorithm]) => pc = "rejected"
       /\ ~(pc = "crashed" /\ error = "KeyError")
       /\ pc \in {"playing", "break"}
              => alg.current_state \in DOMAIN alg.config.states


\* C13: a turn in which the algorithm returns a square the view already
\* knows ends the game there and raises nothing: take_shot is not called
\* (grid, hits_made and the last result stay), the shot list, the hit list
\* and the view stay, the batch goes on to its next game, and the heat map
\* then grows by one for each square the view knows, the repeated one too.
C13_KnownSquareEndsGameQuietly ==
    [][/\ (/\ pc = "playing"
           /\ turns' = turns + 1
           /\ player_view[last_shot'] # "UNKNOWN")
              => /\ pc' = "break"
                 /\ error' = "None"
                 /\ UNCHANGED <<heap, hits_made, result, shots_fired_coords,
                                hit_history, player_view, statVars>>
       /\ pc = "break"
              => /\ pc' = IF games_played + 1 < NumSimulations
                          THEN "new_game" ELSE "done"
                 /\ error' = "None"
                 /\ UNCHANGED <<heap, hits_made>>
                 /\ \A cell \in Cells :
                        heat_map_grid'[cell] =
                            heat_map_grid[cell]
                            + (IF player_view[cell] # "UNKNOWN" THEN 1 ELSE 0)]_vars

\* The second game is played after a first game that ended on a known
\* square with a ship cell never shot.
C13_Witness ==
    /\ pc = "playing"
    /\ games_played = 1
    /\ turns > 0
    /\ \E cell \in ShipCells(LayoutA) : heat_map_grid[cell] = 0


\* C14: a count is entered into shots_per_game only for a game that ended
\* with every ship sunk; a game that ended on a known square adds no
\* ordinary entry.
C14_AbortedGameNotScored ==
    [][shots_per_game' # shots_per_game
           => (pc = "playing" /\ is_game_over)]_vars


\* C15: in run_comparison every game is played on a grid of its own that
\* starts as the round's template: the same ship cells and the same
\* total_ship_segments for every algorithm of the round, hits_made = 0 at
\* the start and afterwards the number of hits of this game alone; and no
\* shot changes the template, its grid or a grid of the caller.
OwnCopyOfTemplate ==
    /\ total_ship_segments = game_template.total_ship_segments
    /\ ShipCells(heap[solution_grid]) = ShipCells(heap[game_template.solution_grid])
    /\ game_template.hits_made = 0
    /\ \A cell \in Cells : heap[game_template.solution_grid][cell] # "HIT"
    /\ hits_made = Cardinality({cell \in Cells : player_view[cell] = "HIT"})
    /\ turns = 0 => /\ hits_made = 0
                    /\ heap[solution_grid] = heap[game_template.solution_grid]
    /\ ship_placement_strategy # "random_each_round" => heap[1] = LayoutA
    /\ ship_placement_strategy = "random_from_set" => heap[2] = LayoutB

C15_EachAlgorithmPlaysOwnCopy ==
    [][/\ pc' \in {"playing", "break"} => OwnCopyOfTemplate'
       /\ (/\ pc \in {"next_algorithm", "playing", "break"}
           /\ pc' \in {"next_algorithm", "playing", "break"})
              => /\ game_template' = game_template
                 /\ heap'[game_template.solution_grid] =
                        heap[game_template.solution_grid]]_vars

\* The second algorithm of the second round has made a hit on the fixed grid.
C15_Witness ==
    /\ pc = "playing"
    /\ ship_placement_strategy = "fixed_for_all_rounds"
    /\ games_played = 1
    /\ algorithm = "targetingalgorithm"
    /\ hits_made = 1
    /\ turns >= 2


\* C16: the clusters SmartTarget, P2M2STDirectional and P2M2Optimized keep
\* are the classes of their hits under "Manhattan distance 1", closed over
\* chains: every cluster is non-empty and linked throughout by steps of
\* distance 1, and two hits of different clusters are never at distance 1
\* (so a diagonal pair with no hit linking it is two clusters).
LinkedThroughout(group) ==
    \A part \in SUBSET group :
        (part # {} /\ part # group)
            => \E a \in part, b \in group \ part : Manhattan(a, b) = 1

C16_ClustersAreAdjacencyClasses ==
    algorithm \in {"smarttarget", "p2m2stdirectional", "p2m2optimized"}
    => LET groups == alg.target_groups
       IN /\ \A i \in DOMAIN groups :
                 groups[i] # {} /\ LinkedThroughout(groups[i])
          /\ \A i, j \in DOMAIN groups :
                 i # j => \A a \in groups[i], b \in groups[j] : Manhattan(a, b) > 1

\* Two clusters holding a diagonal pair of hits
C16_Witness ==
    /\ algorithm \in {"smarttarget", "p2m2stdirectional", "p2m2optimized"}
    /\ pc = "playing"
    /\ \E i, j \in DOMAIN alg.target_groups :
          /\ i # j
          /\ \E a \in alg.target_groups[i], b \in alg.target_groups[j] :
                 a[1] # b[1] /\ a[2] # b[2] /\ Manhattan(a, b) = 2

\* C17: what the sunk check of SmartTarget, P2M2STDirectional and
\* P2M2Optimized does to the clusters and counts of any state reached:
\* every cluster it removes is boxed in (no candidate of it is on the board
\* and unfired) and had a positive count for its size; the count of a size
\* goes down by the number of clusters of that size removed and never below
\* zero; a boxed-in cluster that stays has no count left for its size.
ClusterBoxedIn(st, group) ==
    CASE algorithm = "smarttarget" ->
             ~BlocksHaveValid(SmartTarget_get_target_candidates_for_group(group),
                              st.fired_shots)
      [] algorithm = "p2m2stdirectional" -> P2M2STDirectional_boxed_in(st, group)
      [] algorithm = "p2m2optimized" -> P2M2Optimized_boxed_in(st, group)

SunkCheck(st) ==
    CASE algorithm = "smarttarget" -> SmartTarget_check_for_sunk_ships(st)
      [] algorithm = "p2m2stdirectional" ->
             P2M2STDirectional_check_for_sunk_ships(st)
      [] algorithm = "p2m2optimized" -> P2M2Optimized_check_sunk(st)

NoCountLeft(remaining, size) ==
    size \notin DOMAIN remaining \/ remaining[size] = 0

C17_SunkOnlyWhenBoxedInAndCounted ==
    algorithm \in {"smarttarget", "p2m2stdirectional", "p2m2optimized"}
    => LET after == SunkCheck(alg)
           kept == SeqToSet(after.target_groups)
           removed == SeqToSet(alg.target_groups) \ kept
       IN /\ kept \subseteq SeqToSet(alg.target_groups)
          /\ Len(after.target_groups) = Cardinality(kept)
          /\ \A group \in removed :
                 /\ ClusterBoxedIn(alg, group)
                 /\ ~NoCountLeft(alg.remaining_ships, Cardinality(group))
          /\ DOMAIN after.remaining_ships = DOMAIN alg.remaining_ships
          /\ \A size \in DOMAIN alg.remaining_ships :
                 /\ after.remaining_ships[size] >= 0
                 /\ after.remaining_ships[size] =
                        alg.remaining_ships[size]
                        - Cardinality({group \in removed :
                                           Cardinality(group) = size})
          /\ \A group \in kept :
                 ClusterBoxedIn(alg, group)
                     => NoCountLeft(after.remaining_ships, Cardinality(group))

\* A cluster has been counted as sunk, and a boxed-in cluster stays because
\* no count is left for its size.
C17_Witness ==
    /\ algorithm \in {"smarttarget", "p2m2stdirectional", "p2m2optimized"}
    /\ pc = "playing"
    /\ CounterSum(alg.remaining_ships) < CounterSum(CounterOf(ship_config))
    /\ \E i \in DOMAIN alg.target_groups :
          /\ ClusterBoxedIn(alg, alg.target_groups[i])
          /\ NoCountLeft(alg.remaining_ships, Cardinality(alg.target_groups[i]))
    /\ SunkCheck(alg) = alg


\* C18: when an unfired cell is left and neither the targeting candidates nor
\* the hunt queue yields one, next_shot returns an unfired cell: no call ends
\* in an endless loop, in a known square, or in the ValueError / RuntimeError
\* that the algorithms raise for "no cell left".  (NameError and KeyError are
\* other defects, raised before any queue is consulted.)
C18_ExhaustionIsNotAnError ==
    /\ pc \notin {"hung", "break"}
    /\ pc = "crashed" => error \notin {"ValueError", "RuntimeError"}

\* P2M2STDirectional queues one parity only; with no hit there is no targeting
\* candidate, so a fired cell of the other parity came from the fallback.
C18_Witness ==
    /\ algorithm = "p2m2stdirectional"
    /\ pc = "playing"
    /\ hit_history = <<>>
    /\ alg.hunt_targets = <<>>
    /\ \E a \in Cells : \E b \in Cells :
          /\ Parity(a) # Parity(b)
          /\ player_view[a] = "MISS"
          /\ player_view[b] = "MISS"

\* C19: in every state of a batch run each next_shot call returns and every
\* game loop ends: no game is left in a fallback loop that never finds a cell,
\* and none is ended by the exception an algorithm raises when it has no
\* unfired cell left while the game is not over.
C19_ForwardProgress ==
    /\ pc # "hung"
    /\ ~(pc = "crashed" /\ error \in {"ValueError", "RuntimeError"})

\* C20: under a fixed seed the shots of an algorithm instance depend on its
\* own draws only: the start position P2M2STDirectional draws for a game of a
\* comparison is the one its own stream gives after the draws of its
\* constructor and of its earlier games, whatever the other algorithm of the
\* comparison drew in between.
C20_ShotsFollowOwnStream ==
    (/\ algorithm = "p2m2stdirectional"
     /\ pc = "playing"
     /\ turns = 0)
    => alg.hunt_targets[1] =
           edge_squares[(random_output(random_state.seed, 1 + games_played)
                             % Len(edge_squares)) + 1]

\* The interpreter with one empty queue, and with the cells in `fired` fired
InterpreterWith(fired) ==
    [GenericAlgorithm_init(P2M2Document) EXCEPT
         !.queues = [q \in {"hunt_queue"} |-> <<>>], !.fired_shots = fired]

\* What an action of the interpreter leaves in the empty queue
QueuesLeftBy(action) ==
    {o.st.queues["hunt_queue"] :
         o \in GenericAlgorithm_execute_action(
                   InterpreterWith({}), ActionOn(action, "hunt_queue"), NoCell)}

C21_DiagonalHuntEmulated ==
    /\ \A queue \in QueuesLeftBy("generate_diagonal_hunt") :
           \E st \in P2M2STDirectional_reset(P2M2STDirectional_new(ship_config)) :
               Ordered(st.hunt_targets) = queue
    /\ (algorithm = "p2m2stdirectional" /\ pc = "playing" /\ turns = 0)
           => Ordered(alg.hunt_targets) \in QueuesLeftBy("generate_diagonal_hunt")

C21_CheckerboardHuntEmulated ==
    /\ \A queue \in QueuesLeftBy("generate_checkerboard_hunt") :
           \E st \in SmartTarget_reset(SmartTarget_new(ship_config)) :
               <<st.hunt_targets.front, st.hunt_targets.back>> = queue
    /\ (algorithm = "smarttarget" /\ pc = "playing" /\ turns = 0)
           => <<alg.hunt_targets.front, alg.hunt_targets.back>>
                  \in QueuesLeftBy("generate_checkerboard_hunt")

C21_RandomShotEmulated ==
    (algorithm = "randomsearch" /\ pc = "playing" /\ alg.unfired_shots # {})
        => {o.shot : o \in RandomSearch_next_shot(alg, player_view, hit_history)}
           = {o.shot : o \in GenericAlgorithm_execute_action(
                                 InterpreterWith(Cells \ alg.unfired_shots),
                                 ActionOn("generate_random_shot", ""), NoCell)}

\* C21: the interpreter behaves as the heuristic it emulates: the hunt orders
\* of generate_diagonal_hunt are those of P2M2STDirectional.reset, the hunt
\* orders of generate_checkerboard_hunt are those of SmartTarget.reset, and
\* generate_random_shot yields the shots RandomSearch yields.
C21_InterpreterEmulatesHeuristics ==
    /\ C21_DiagonalHuntEmulated
    /\ C21_CheckerboardHuntEmulated
    /\ C21_RandomShotEmulated

\* The cells held in a queue of the interpreter
QueueCells(queue) == UNION {queue[i] : i \in DOMAIN queue}

\* How often the on_entry list of a state of the document increments v
EntryIncrements(config, state, v) ==
    IF state \notin DOMAIN config.states THEN 0
    ELSE Cardinality({i \in DOMAIN config.states[state].on_entry :
             /\ config.states[state].on_entry[i].action = "increment_variable"
             /\ config.states[state].on_entry[i].variable = v})

FirstUnfired(queue, fired) ==
    LET open == {i \in DOMAIN queue : queue[i] \cap fired = {}}
    IN IF open = {} THEN NoCell ELSE CHOOSE cell \in queue[MinOf(open)] : TRUE

\* C23: the next_shot list is run in order, an entry whose condition is
\* false is passed over, and an entry that yields no unfired coordinate does
\* not end the search.  For the layered document: the shot is the first
\* unfired cell of the target queue (which, when empty, first takes the
\* unfired neighbours of the last hit), else the first unfired cell of the
\* hunt queue, and only when both are dry any unfired cell.
C23_ActionsTriedInOrder ==
    [][(/\ algorithm = "layered"
        /\ pc = "playing"
        /\ pc' \in {"playing", "break"})
           => LET fired == alg.fired_shots
                  last_hit == IF hit_history # <<>>
                              THEN hit_history[Len(hit_history)] ELSE NoCell
                  r == last_hit[1]
                  c == last_hit[2]
                  neighbours ==
                      SelectSeq(<< <<r - 1, c>>, <<r + 1, c>>,
                                   <<r, c - 1>>, <<r, c + 1>> >>,
                                LAMBDA cell : cell \in Cells \ fired)
                  target == IF alg.queues["target_queue"] = <<>>
                               /\ last_hit # NoCell
                            THEN [i \in DOMAIN neighbours |-> {neighbours[i]}]
                            ELSE alg.queues["target_queue"]
                  hunt == alg.queues["hunt_queue"]
                  shot == alg'.last_shot_returned
              IN IF FirstUnfired(target, fired) # NoCell
                 THEN shot = FirstUnfired(target, fired)
                 ELSE IF FirstUnfired(hunt, fired) # NoCell
                 THEN shot = FirstUnfired(hunt, fired)
                 ELSE shot \in Cells \ fired]_vars

\* The layered document after a shot from the target queue that missed:
\* the first entry queued the neighbours of the hit and yielded nothing, the
\* second entry gave the shot, and the queue still holds neighbours.
C23_Witness ==
    /\ algorithm = "layered"
    /\ pc = "playing"
    /\ Len(hit_history) = 1
    /\ alg.last_shot_returned # NoCell
    /\ Manhattan(alg.last_shot_returned, hit_history[1]) = 1
    /\ player_view[alg.last_shot_returned] = "MISS"
    /\ alg.queues["target_queue"] # <<>>

\* C24: a coordinate of hit_history not yet among active_hits makes the
\* result of the turn HIT, also when the view shows MISS at the last shot
\* returned: on_hit holds and on_miss does not; the result is MISS only with
\* MISS in the view at the last shot and no new hit; after the call
\* active_hits holds every coordinate of hit_history.
C24_NewHitMakesTheTurnAHit ==
    [][(/\ algorithm = "outcome"
        /\ pc = "playing"
        /\ alg' # alg)
           => LET new_hit == SeqToSet(hit_history) \ alg.active_hits # {}
                  miss == /\ alg.last_shot_returned # NoCell
                          /\ player_view[alg.last_shot_returned] = "MISS"
                  hits_seen == alg'.variables["hits_seen"]
                                   - alg.variables["hits_seen"]
                  misses_seen == alg'.variables["misses_seen"]
                                     - alg.variables["misses_seen"]
              IN /\ new_hit => hits_seen = 1 /\ misses_seen = 0
                 /\ (~new_hit /\ miss) => hits_seen = 0 /\ misses_seen = 1
                 /\ (~new_hit /\ ~miss) => hits_seen = 0 /\ misses_seen = 0
                 /\ SeqToSet(hit_history) \subseteq alg'.active_hits]_vars

\* A turn counted as a hit although every shot returned before it missed:
\* the hit was one the caller reported on another square.
C24_Witness ==
    /\ algorithm = "outcome"
    /\ alg.variables["hits_seen"] = 1
    /\ Cardinality(alg.fired_shots) >= 2
    /\ \A cell \in alg.fired_shots \ {alg.last_shot_returned} :
           player_view[cell] = "MISS"

\* The cells at distance d along one axis from hit
AxisCells(hit, d) ==
    {cell \in Cells : \/ cell[1] = hit[1] /\ Manhattan(cell, hit) = d
                      \/ cell[2] = hit[2] /\ Manhattan(cell, hit) = d}

\* C25: every coordinate in a queue of the interpreter is on the board, and
\* what add_p2m2_to_queue and add_adjacent_to_queue add are the on-board
\* cells at distance 2 and 1 along an axis from the last hit that were
\* unfired then.  For the P2M2 document, whose TARGET state runs both on
\* entry: after the turn that enters TARGET the target queue and the shot
\* taken from it are those cells, a distance-2 cell first when there is one.
C25_QueuedCellsAreValidNeighbours ==
    [][(/\ algorithm = "p2m2_json"
        /\ pc = "playing"
        /\ pc' \in {"playing", "break", "hung"})
           => /\ \A q \in DOMAIN alg'.queues :
                     QueueCells(alg'.queues[q]) \subseteq Cells
              /\ (alg.current_state = "HUNT" /\ alg'.current_state = "TARGET")
                     => LET hit == hit_history[Len(hit_history)]
                            far == AxisCells(hit, 2) \ alg.fired_shots
                            near == AxisCells(hit, 1) \ alg.fired_shots
                            queued == QueueCells(alg'.queues["target_queue"])
                        IN IF far \cup near = {}
                           THEN queued = {}
                           ELSE /\ queued \cup {alg'.last_shot_returned}
                                       = far \cup near
                                /\ alg'.last_shot_returned \notin queued
                                /\ far # {} => alg'.last_shot_returned \in far]_vars

\* The P2M2 document just after it entered TARGET on a hit next to a cell
\* fired before: that cell was not queued.
C25_Witness ==
    /\ algorithm = "p2m2_json"
    /\ pc = "playing"
    /\ alg.current_state = "TARGET"
    /\ Len(hit_history) = 1
    /\ Cardinality(alg.active_hits) = 1
    /\ alg.queues["target_queue"] # <<>>
    /\ \E cell \in AxisCells(hit_history[1], 1) :
           /\ player_view[cell] = "MISS"
           /\ cell # alg.last_shot_returned
           /\ cell \notin QueueCells(alg.queues["target_queue"])
           /\ Cardinality(alg.fired_shots) = 3

\* The cell halfway between two cells two apart on an axis
Midpoint(a, b) == <<(a[1] + b[1]) \div 2, (a[2] + b[2]) \div 2>>

\* C26: in P2M2Enhanced, when the shot just taken was a pattern probe two
\* cells from the hit it was made from and it hit, the next shot is the
\* cell between the two hits if that cell is unfired.  (A shot two cells
\* from last_hit_for_midpoint on its axis is a pattern probe made from it:
\* hunting clears that field and the fallback fires only when every pattern
\* cell of the hit it names is fired.)
C26_MidpointAfterPatternHit ==
    [][(/\ algorithm = "p2m2enhanced"
        /\ pc = "playing"
        /\ turns' = turns + 1
        /\ alg.last_hit_for_midpoint # NoCell
        /\ last_shot \in AxisCells(alg.last_hit_for_midpoint, 2)
        /\ result = "HIT"
        /\ last_shot \notin alg.all_hits
        /\ Midpoint(alg.last_hit_for_midpoint, last_shot) \notin alg.fired_shots)
           => last_shot' = Midpoint(alg.last_hit_for_midpoint, last_shot)]_vars

\* The midpoint was fired right after the probe hit: the hit the probe was
\* made from is still the one noted, the probe's hit heads the list.
C26_Witness ==
    /\ algorithm = "p2m2enhanced"
    /\ pc = "playing"
    /\ Len(hit_history) >= 2
    /\ alg.priority_hits # <<>>
    /\ LET probe == hit_history[Len(hit_history)]
           origin == hit_history[Len(hit_history) - 1]
       IN /\ probe \in AxisCells(origin, 2)
          /\ alg.last_hit_for_midpoint = origin
          /\ Head(alg.priority_hits) = probe
          /\ last_shot = Midpoint(origin, probe)
          /\ result = "MISS"

\* The ship a ship cell belongs to, as its cells: the cells of its name
\* joined to it on the grid as the caller gave it (take_shot overwrites the
\* name of a hit cell).
ShipOf(cell) ==
    LET given == CHOOSE grid \in FleetGrids :
                     ShipCells(grid) = ShipCells(heap[solution_grid])
        same == {d \in Cells : given[d] = given[cell]}
        near == {d \in same : Manhattan(d, cell) <= 1}
    IN {d \in same : \E e \in near : Manhattan(d, e) <= 1}

\* The distinct ships hit so far
ShipsHit == {ShipOf(hit_history[i]) : i \in DOMAIN hit_history}

\* C28: in P2M2STDirectional and P2M2Optimized ships_found_count is at most
\* the number of distinct ships hit so far in the game.
C28_CountAtMostShipsHit ==
    (algorithm \in {"p2m2stdirectional", "p2m2optimized"} /\ pc = "playing")
        => alg.ships_found_count <= Cardinality(ShipsHit)

\* The cells of every candidate list of every cluster of the state
ClusterCandidates(st) ==
    UNION {UNION {UNION {blocks[j] : j \in DOMAIN blocks} :
                      blocks \in P2M2STDirectional_get_target_candidates_for_group(
                                     st, st.target_groups[i])} :
               i \in DOMAIN st.target_groups}

\* C27: in P2M2STDirectional a call of next_shot never lowers
\* ships_found_count, and when the count is above 4 after the call every
\* candidate of every cluster is next to a hit of the clusters: no cell two
\* away from a hit is a candidate.
C27_PatternProbingCapped ==
    [][(algorithm = "p2m2stdirectional" /\ pc = "playing" /\ turns' = turns + 1)
          => /\ alg'.ships_found_count >= alg.ships_found_count
             /\ alg'.ships_found_count > 4
                    => \A cell \in ClusterCandidates(alg') :
                          \E hit \in GroupedHits(alg'.target_groups) :
                              Manhattan(cell, hit) = 1]_vars

\* The count is above 4 with a cluster of one hit that has cells two away
\* on the board.
C27_Witness ==
    /\ algorithm = "p2m2stdirectional"
    /\ pc = "playing"
    /\ alg.ships_found_count > 4
    /\ \E i \in DOMAIN alg.target_groups :
          /\ Cardinality(alg.target_groups[i]) = 1
          /\ \E hit \in alg.target_groups[i] : AxisCells(hit, 2) # {}

\* The cells in a hunt list
HuntCells(hunt) == hunt.front \cup hunt.back

\* The run of on-board unfired cells through `cell` along a row (dr = 0,
\* dc = 1) or a column (dr = 1, dc = 0), the cell included
RunThrough(cell, dr, dc, fired) ==
    1 + FreeRun(cell, 0 - dr, 0 - dc, 1, BoardSize + 1, fired)
      + FreeRun(cell, dr, dc, 1, BoardSize + 1, fired)

\* Whether both runs through the cell are shorter than the smallest size
\* of which a ship remains
TooTightForRemaining(remaining, cell, fired) ==
    LET sizes == {n \in DOMAIN remaining : remaining[n] > 0}
    IN /\ sizes # {}
       /\ RunThrough(cell, 0, 1, fired) < MinOf(sizes)
       /\ RunThrough(cell, 1, 0, fired) < MinOf(sizes)

\* C29: in a call of P2M2Optimized.next_shot that hunts with more than 60%
\* of the cells fired, the hunt candidates passed over are those too tight
\* for the smallest size of which a ship remains: an unfired cell taken off
\* the hunt list and not returned is too tight, and a too tight candidate is
\* returned only by the fallback, that is with the hunt list used up.
C29_HuntSkipsOnlyTightCells ==
    [][(/\ algorithm = "p2m2optimized"
        /\ pc = "playing"
        /\ turns' = turns + 1
        /\ Cardinality(alg.fired_shots) * 5 > BoardSize * BoardSize * 3
        /\ \A i \in DOMAIN alg'.target_groups :
               P2M2Optimized_boxed_in(alg, alg'.target_groups[i]))
          => LET candidates == HuntCells(alg.hunt_targets) \ alg.fired_shots
                 popped == candidates \ HuntCells(alg'.hunt_targets)
             IN /\ \A cell \in popped \ {last_shot'} :
                       TooTightForRemaining(alg'.remaining_ships, cell,
                                            alg.fired_shots)
                /\ (/\ last_shot' \in candidates
                    /\ TooTightForRemaining(alg'.remaining_ships, last_shot',
                                            alg.fired_shots))
                       => HuntCells(alg'.hunt_targets) = {}]_vars

\* The cells strictly between two cells of one row or one column
Between(a, b) ==
    {cell \in Cells :
        \/ /\ a[1] = b[1] /\ cell[1] = a[1]
           /\ \/ a[2] < cell[2] /\ cell[2] < b[2]
              \/ b[2] < cell[2] /\ cell[2] < a[2]
        \/ /\ a[2] = b[2] /\ cell[2] = a[2]
           /\ \/ a[1] < cell[1] /\ cell[1] < b[1]
              \/ b[1] < cell[1] /\ cell[1] < a[1]}

\* The unfired cells between two hits of one row or column that have no
\* missed cell between them
GapCells(hits, fired) ==
    {cell \in Cells \ fired :
        \E a \in hits, b \in hits :
            /\ cell \in Between(a, b)
            /\ Between(a, b) \cap fired \subseteq hits}

\* C30: in P2M2Optimized and P2M2STDirectional, when two hits lie on one
\* row or column with unfired cells between them, the next shot is an
\* unfired cell between such hits.
C30_GapFilledFirst ==
    [][(/\ algorithm \in {"p2m2optimized", "p2m2stdirectional"}
        /\ pc = "playing"
        /\ turns' = turns + 1
        /\ GapCells(SeqToSet(hit_history), alg.fired_shots) # {})
          => last_shot' \in GapCells(SeqToSet(hit_history), alg.fired_shots)]_vars

\* The cells next to a cell that are UNKNOWN in the view
UnknownNeighbours(hit, view) ==
    {cell \in Cells : Manhattan(cell, hit) = 1 /\ view[cell] = "UNKNOWN"}

\* C31: a next_shot call of HuntAndTarget that finds a new hit in
\* hit_history leaves the mode TARGET, has every cell next to a new hit that
\* is UNKNOWN queued or fired, and returns a coordinate that was queued
\* before or is next to a new hit and UNKNOWN.
C31_NewHitQueuesNeighbours ==
    [][(/\ algorithm = "huntandtarget"
        /\ pc = "playing"
        /\ alg' # alg
        /\ SeqToSet(hit_history) \ alg.active_hits # {})
          => LET newly_found_hits == SeqToSet(hit_history) \ alg.active_hits
                 added == UNION {UnknownNeighbours(hit, player_view) :
                                     hit \in newly_found_hits}
                 queued == SeqToSet(alg.priority_targets) \cup added
             IN queued # {}
                   => /\ pc' = "playing"
                      /\ alg'.mode = "TARGET"
                      /\ last_shot' \in queued
                      /\ SeqToSet(alg'.priority_targets) = queued \ {last_shot'}]_vars

\* The hits the instance has not seen yet
NewlyFoundHits ==
    SeqToSet(hit_history)
        \ (IF algorithm = "huntandtarget" THEN alg.active_hits ELSE alg.all_hits)

\* Whether a hit has an on-board unfired cell in its patterns
HasPatternCell(hit, fired) ==
    \/ HasValid(get_p2m2_pattern(hit), fired)
    \/ HasValid(get_adjacent_pattern(hit), fired)

\* Whether the call that starts in the current state has a target to fire
\* at once the new hits are taken in
TargetRemains ==
    IF algorithm = "huntandtarget"
    THEN \/ alg.priority_targets # <<>>
         \/ \E hit \in NewlyFoundHits : UnknownNeighbours(hit, player_view) # {}
    ELSE \E hit \in SeqToSet(alg.priority_hits) \cup NewlyFoundHits :
             HasPatternCell(hit, alg.fired_shots)

\* C32: in HuntAndTarget and P2M2Enhanced a call that finds a new hit while
\* hunting leaves the mode TARGET; a call leaves the mode HUNT after TARGET
\* only when no target remained; and a call made while a target remains
\* takes nothing from the hunt list.
C32_TargetBeforeHunt ==
    [][(algorithm \in {"huntandtarget", "p2m2enhanced"}
        /\ pc = "playing" /\ alg' # alg)
          => /\ (alg.mode = "HUNT" /\ NewlyFoundHits # {}) => alg'.mode = "TARGET"
             /\ (alg.mode = "TARGET" /\ alg'.mode = "HUNT") => ~TargetRemains
             /\ TargetRemains => alg'.hunt_targets = alg.hunt_targets]_vars

\* P2M2Enhanced has just fired a pattern cell of its first priority hit
\* with the hunt list not empty.
C32_Witness ==
    /\ algorithm = "p2m2enhanced"
    /\ pc = "playing"
    /\ alg.mode = "TARGET"
    /\ alg.priority_hits # <<>>
    /\ Manhattan(last_shot, Head(alg.priority_hits)) \in {1, 2}
    /\ result = "MISS"
    /\ HuntCells(alg.hunt_targets) \ alg.fired_shots # {}

\* C33: HuntAndTarget in hunt mode fires an odd-parity cell only when every
\* even-parity cell has been fired or revealed.
C33_EvenParityHuntedFirst ==
    [][(/\ algorithm = "huntandtarget"
        /\ pc = "playing"
        /\ turns' = turns + 1
        /\ alg'.mode = "HUNT"
        /\ last_shot' \in ParityCells(1))
          => \A cell \in ParityCells(0) : player_view[cell] # "UNKNOWN"]_vars

\* C34: reset() and next_shot() of the interpreter never modify the algorithm
\* document: after any sequence of calls on one instance the registry's
\* document is the one that was loaded, and the other instance built from it
\* resets and answers exactly as it would with the loaded document.
C34_DocumentNeverModified ==
    (algorithms # <<>> /\ DocumentRef \in DOMAIN heap) =>
        LET other == algorithms[1].instance
            loaded == [other EXCEPT !.config = RegistryDocument]
        IN /\ heap[DocumentRef] = RegistryDocument
           /\ alg.config = RegistryDocument
           /\ GenericAlgorithm_reset_outcomes(Deref(other)) =
                  GenericAlgorithm_reset_outcomes(loaded)
           /\ GenericAlgorithm_next_shot(Deref(other), UnknownView, <<>>) =
                  GenericAlgorithm_next_shot(loaded, UnknownView, <<>>)

\* the first instance has counted and consumed its queue, the other has not
C34_Witness ==
    /\ algorithms # <<>>
    /\ DocumentRef \in DOMAIN heap
    /\ pc = "playing"
    /\ turns >= 2
    /\ alg.variables # RegistryDocument.variables
    /\ alg.queues # algorithms[1].instance.queues
    /\ algorithms[1].instance.variables = RegistryDocument.variables

\* the driver's lists and view agree with the board of the game being played
DriverViewConsistent ==
    /\ \A i, j \in DOMAIN hit_history : hit_history[i] = hit_history[j] => i = j
    /\ SeqToSet(hit_history) = {cell \in Cells : player_view[cell] = "HIT"}
    /\ \A cell \in Cells :
          /\ player_view[cell] # "UNKNOWN" <=> cell \in FiredCells
          /\ player_view[cell] = "HIT" <=>
                 (cell \in FiredCells /\ heap[solution_grid][cell] # "None")
          /\ player_view[cell] = "MISS" <=>
                 (cell \in FiredCells /\ heap[solution_grid][cell] = "None")

\* C35: throughout a game hit_history is append-only and lists, in firing
\* order and without duplicates, exactly the cells whose view value is HIT; a
\* view cell is non-UNKNOWN iff it was fired at, HIT iff it is a ship cell
\* that was fired at and MISS iff it is a water cell that was fired at.
C35_HitHistoryMatchesView ==
    [][/\ pc \in {"playing", "break"} => DriverViewConsistent
       /\ pc' \in {"playing", "break"} => DriverViewConsistent'
       /\ pc = "playing" /\ pc' \in {"playing", "break", "crashed", "hung"} =>
              \/ hit_history' = hit_history /\ player_view' = player_view
              \/ /\ hit_history' = hit_history
                 /\ result' = "MISS"
                 /\ player_view' = [player_view EXCEPT ![last_shot'] = "MISS"]
              \/ /\ hit_history' = Append(hit_history, last_shot')
                 /\ result' = "HIT"
                 /\ player_view' = [player_view EXCEPT ![last_shot'] = "HIT"]]_vars

\* a second game on the caller's grid with a hit after a miss
C35_Witness ==
    /\ pc = "playing"
    /\ games_played = 1
    /\ Len(hit_history) >= 2
    /\ \E cell \in Cells : player_view[cell] = "MISS"
    /\ result = "HIT"
    /\ hit_history[Len(hit_history)] = last_shot

SumSeq(seq) == SumOver(seq, DOMAIN seq)

\* the cells the game in progress has fired at, read off the view
FiredThisGame == {cell \in Cells : player_view[cell] # "UNKNOWN"}

\* one result of a batch after `games` games
TallyConsistent(shots, heat_map, games) ==
    /\ Len(shots) = games
    /\ SumOver(heat_map, Cells) = SumSeq(shots)
    /\ \A cell \in Cells : heat_map[cell] \in 0 .. games

\* one result over the step that ends a game
TallyCountsGame(shots, heat_map, shots_after, heat_map_after) ==
    /\ shots_after = Append(shots, Cardinality(FiredThisGame))
    /\ heat_map_after = [cell \in Cells |->
                            heat_map[cell]
                            + IF cell \in FiredThisGame THEN 1 ELSE 0]

\* the games the algorithm at position i of a comparison has finished
GamesOf(i) ==
    games_played
    + IF pc \in {"next_algorithm", "playing", "break"} /\ i < NextItem(algorithm)
         /\ ~(pc \in {"playing", "break"} /\ i = NextItem(algorithm) - 1)
      THEN 1 ELSE 0

\* C36: shots_per_game has exactly one entry per game played (per algorithm
\* in a comparison), the heat-map cells sum to the sum of shots_per_game, and
\* every game adds one to exactly the cells it fired at, so each cell is the
\* number of games in which it was fired, at most the number of games.  The
\* tallies are read at every step but a shot inside a game, which leaves
\* them and the count of games alone.
C36_TalliesMatchGames ==
    [][IF pc = "playing" /\ pc' = "playing"
       THEN UNCHANGED <<shots_per_game, heat_map_grid, games_played, algorithm>>
       ELSE IF algorithms' = <<>>
       THEN algorithm = "targetingalgorithm" =>
                /\ TallyConsistent(shots_per_game, heat_map_grid, games_played)'
                /\ pc' = "done" => Len(shots_per_game') = NumSimulations
                /\ <<shots_per_game', heat_map_grid'>> # <<shots_per_game, heat_map_grid>>
                       => /\ games_played' = games_played + 1
                          /\ TallyCountsGame(shots_per_game, heat_map_grid,
                                             shots_per_game', heat_map_grid')
       ELSE \A i \in DOMAIN ComparedResults :
                LET id == ComparedResults[i]
                IN /\ TallyConsistent(shots_per_game[id], heat_map_grid[id],
                                      GamesOf(i))'
                   /\ pc' = "done" => Len(shots_per_game'[id]) = NumSimulations
                   /\ <<shots_per_game'[id], heat_map_grid'[id]>>
                          # <<shots_per_game[id], heat_map_grid[id]>>
                          => /\ id = algorithm
                             /\ pc \in {"playing", "break"}
                             /\ TallyCountsGame(shots_per_game[id], heat_map_grid[id],
                                                shots_per_game'[id],
                                                heat_map_grid'[id])]_vars

\* a comparison ended with a cell both algorithms fired at in both rounds and
\* a cell one of them never fired at
C36_Witness ==
    /\ pc = "done"
    /\ algorithms # <<>>
    /\ \E id \in SeqToSet(ComparedResults) :
           /\ \E cell \in Cells : heat_map_grid[id][cell] = NumSimulations
           /\ \E cell \in Cells : heat_map_grid[id][cell] = 0
           /\ \E i, j \in DOMAIN shots_per_game[id] :
                  shots_per_game[id][i] # shots_per_game[id][j]

\* the hits the instance has been shown (all but a hit of the shot just
\* answered) that are in no cluster: the hits of retired clusters
RetiredHits ==
    (SeqToSet(hit_history) \ (IF result = "HIT" THEN {last_shot} ELSE {}))
        \ GroupedHits(alg.target_groups)

\* how often the remaining-ship counter has been lowered in this game
Retirements ==
    CounterSum(CounterOf(ship_config)) - CounterSum(alg.remaining_ships)

\* C37: in SmartTarget, P2M2STDirectional and P2M2Optimized the hits of a
\* cluster retired as sunk never come back into target_groups during the
\* game, and the remaining-ship counter is lowered at most once per ship hit.
C37_RetiredOnceForGood ==
    [][(/\ algorithm \in {"smarttarget", "p2m2stdirectional", "p2m2optimized"}
        /\ pc = "playing"
        /\ pc' = "playing"
        /\ turns' = turns + 1)
           => /\ RetiredHits \subseteq RetiredHits'
              /\ Retirements' <= Cardinality(ShipsHit)]_vars

\* C38: after every next_shot call of SmartTarget, P2M2STDirectional and
\* P2M2Optimized the clusters of target_groups are non-empty, pairwise
\* disjoint, made of coordinates of the game's hit_history only, and no cell
\* of one cluster is at Manhattan distance 1 from a cell of another.
C38_ClustersPartitionHits ==
    (/\ algorithm \in {"smarttarget", "p2m2stdirectional", "p2m2optimized"}
     /\ pc \in {"playing", "break"})
    => LET groups == alg.target_groups
       IN /\ \A i \in DOMAIN groups :
                 /\ groups[i] # {}
                 /\ groups[i] \subseteq SeqToSet(hit_history)
          /\ \A i, j \in DOMAIN groups :
                 i # j => /\ groups[i] \cap groups[j] = {}
                          /\ ~\E a \in groups[i], b \in groups[j] :
                                 Manhattan(a, b) = 1

\* a hit has joined a cluster while another cluster stands apart
C38_Witness ==
    /\ algorithm \in {"smarttarget", "p2m2stdirectional", "p2m2optimized"}
    /\ pc = "playing"
    /\ Len(alg.target_groups) >= 2
    /\ \E i \in DOMAIN alg.target_groups : Cardinality(alg.target_groups[i]) >= 2
    /\ GroupedHits(alg.target_groups) # SeqToSet(hit_history)

\* C39: in HuntAndTarget a call that leaves _update_state in mode TARGET pops
\* its shot from priority_targets: the call returns, the cell returned and
\* every cell still queued are distinct cells UNKNOWN in the view; and a call
\* that reverts to HUNT clears active_hits and queues or fires no known cell.
C39_TargetPopsUnknownCells ==
    [][(algorithm = "huntandtarget" /\ pc = "playing" /\ alg' # alg)
           => /\ alg'.mode = "TARGET" =>
                     LET popped_from == Append(alg'.priority_targets, last_shot')
                     IN /\ pc' = "playing"
                        /\ turns' = turns + 1
                        /\ \A i \in DOMAIN popped_from :
                               /\ popped_from[i] \in Cells
                               /\ player_view[popped_from[i]] = "UNKNOWN"
                        /\ \A i, j \in DOMAIN popped_from :
                               popped_from[i] = popped_from[j] => i = j
              /\ (alg.mode = "TARGET" /\ alg'.mode = "HUNT") =>
                     /\ alg'.active_hits = {}
                     /\ alg'.priority_targets = <<>>
                     /\ pc' = "playing" => player_view[last_shot'] = "UNKNOWN"]_vars

====
